---- MODULE Spec2Model ----
(***************************************************************************)
(* NPC Manager: the policy-enforcement proxy (npc_manager), its controls   *)
(* and approval gate, and the ticketing API it forwards to.  One /action   *)
(* request is a record of the sequence `calls'; the handler's commits to   *)
(* the Manager store are the atomic steps.                                 *)
(***************************************************************************)
EXTENDS Integers, Sequences, FiniteSets, TLC

VARIABLES
    now,              \* datetime.utcnow(), in minutes
    killSwitch,       \* ManagerControl.global_kill_switch
    calls,            \* the /action requests received so far, with each handler's position
    actionRequests,   \* table action_requests: request_id -> row
    approvals,        \* table approvals, in commit order
    executions,       \* table executions, in commit order
    guardrailEvents,  \* table guardrail_events, in commit order
    downstream,       \* the requests the ticketing API has received from the proxy
    tickets,          \* table tickets of the ticketing store: id -> row
    customers,        \* table customers of the ticketing store: id -> do_not_contact
    agents,           \* table agents of the Manager store: agent_id -> row
    permissionProfiles, \* table permission_profiles: permission_profile_id -> rules
    controlIds,       \* the ids of the rows of table manager_controls
    setup,            \* the seeding script: its position and its completed runs
    environ,          \* os.environ of the agent process: name -> value
    run,              \* run_agent: its position, its session id, how it ended
    toolCalls,        \* the tool adapter invocations of the run, in order
    scope,            \* a `with ServiceManager(services)' block: its position
    processes,        \* ServiceManager.processes: a child's index, or None
    children,         \* the child processes the manager has spawned
    demo,             \* main of scripts/demo.py: its position, the acts' results
    console,          \* the operator's terminal: the line request_approval read last
    act4,             \* act_4_kill_switch of scripts/demo.py: its position and result
    payload,          \* a tool_args dict as Python holds it: keys in insertion order
    payload_hash      \* what hash_payload returned for it

\* the two services: the Manager store, the /action handlers, the ticketing store
services == <<now, killSwitch, calls, actionRequests, approvals, executions,
              guardrailEvents, downstream, tickets>>

\* what lives outside the two services: scripts, the agent process, helpers
\* the rows the /action handlers read and never write, and the script that
\* seeds them
fixtures == <<customers, agents, permissionProfiles, controlIds, setup>>

outside == <<environ, run, toolCalls, scope, processes, children, demo, console,
             act4, payload, payload_hash>>

\* its parts
scripts == <<environ, run, toolCalls, scope, processes, children, demo, act4,
             payload, payload_hash>>
hashing == <<payload, payload_hash>>
agentProcess == <<environ, run, toolCalls>>
serviceManager == <<scope, processes, children>>

vars == <<now, killSwitch, calls, actionRequests, approvals, executions,
          guardrailEvents, downstream, tickets, customers, agents,
          permissionProfiles, controlIds, setup, environ, run, toolCalls,
          scope, processes, children, demo, console, act4, payload,
          payload_hash>>

-----------------------------------------------------------------------------
(* Bounds of the model *)

\* /action requests of one behaviour of Spec and SpecPolicy, all of which may
\* be in flight together
MaxCalls == 2
\* consecutive /action requests of one behaviour of SpecBurst
BurstCalls == 6
\* earlier allowed writes of the calling agent, per timestamp, in the audit
\* store SpecWindow starts from
HistoryRows == 5

(* Program constants *)

max_updates == 5
SessionWindow == 1440
NoSessionWindow == 5

-----------------------------------------------------------------------------
(* Values *)

None == "None"

\* Python truthiness of an optional string (header, session id)
TruthyStr(s) == s # None /\ s # ""

\* Python truthiness of an argument value taken with dict.get: the ids are
\* integers, a missing key gives None
Has(args, k) == k \in DOMAIN args
TruthyArg(args, k) == Has(args, k) /\ args[k] # 0

KnownTools == {"list_tickets", "update_ticket", "send_customer_email"}

\* decision_reason / reason texts, by their parts
Reason(kind, tool, fields, num) ==
    [kind |-> kind, tool |-> tool, fields |-> fields, num |-> num]
NoReason == Reason("none", "", {}, 0)
KillSwitchReason == Reason("Global kill switch is enabled", "", {}, 0)
ToolNotAllowed(tool) == Reason("Tool not in allowed_tools", tool, {}, 0)
FieldsNotAllowed(fs) == Reason("Fields not allowed", "", fs, 0)
WriteLimitExceeded(count) ==
    Reason("Guardrail: max_ticket_updates_per_run exceeded", "", {}, count)
DoNotContact(customer_id) ==
    Reason("Guardrail: Customer has do_not_contact flag set", "", {}, customer_id)
ApprovalRejected == Reason("Approval rejected", "", {}, 0)
ApprovalVia(word) == Reason("Approval " \o word \o " via cli", "", {}, 0)
ExecutionError(code) == Reason("Execution error", "", {}, code)
ExecutedSuccessfully == Reason("Executed successfully", "", {}, 0)
HttpStatus(code) == Reason("HTTP", "", {}, code)
DownstreamReturned(code) == Reason("Downstream API returned", "", {}, code)

-----------------------------------------------------------------------------
(* The Manager store's static tables *)

\* permission_profiles: the three seeded profiles, and one profile without a
\* field restriction as an operator may provision it
PermissionProfiles ==
    [p \in {"read_only", "write_nonprod", "write_prod_with_approval", "write_open"} |->
        CASE p = "read_only" ->
                [env |-> "prod", allowed_tools |-> {"list_tickets"},
                 field_restrictions |-> {}]
          [] p = "write_nonprod" ->
                [env |-> "dev", allowed_tools |-> {"list_tickets", "update_ticket"},
                 field_restrictions |-> {"status"}]
          [] p = "write_prod_with_approval" ->
                [env |-> "prod", allowed_tools |-> KnownTools,
                 field_restrictions |-> {"status"}]
          [] OTHER ->
                [env |-> "prod", allowed_tools |-> KnownTools,
                 field_restrictions |-> {}]]

\* agents: the seeded agent, and agents of the other profiles and statuses
Agents ==
    [a \in {"agent-support-001", "agent-reader", "agent-dev", "agent-ops",
            "agent-batch", "agent-paused", "agent-revoked"} |->
        CASE a = "agent-support-001" ->
                [status |-> "active", permission_profile_id |-> "write_prod_with_approval"]
          [] a = "agent-reader" ->
                [status |-> "active", permission_profile_id |-> "read_only"]
          [] a = "agent-dev" ->
                [status |-> "active", permission_profile_id |-> "write_nonprod"]
          [] a \in {"agent-ops", "agent-batch"} ->
                [status |-> "active", permission_profile_id |-> "write_open"]
          [] a = "agent-paused" ->
                [status |-> "paused", permission_profile_id |-> "write_prod_with_approval"]
          [] OTHER ->
                [status |-> "revoked", permission_profile_id |-> "write_prod_with_approval"]]

(* The ticketing store's seeded rows *)

\* customers: id -> do_not_contact
Customers == (1 :> FALSE) @@ (2 :> TRUE)

NoTime == -1

\* tickets 1 (resolved) and 7 (open) of the twelve seeded tickets
\* tickets_data: the rows the seeding script adds, by id
tickets_data ==
    <<[customer_id |-> 1, title |-> "Password reset request",
       description |-> "Need to reset password", status |-> "resolved"],
      [customer_id |-> 1, title |-> "Feature question",
       description |-> "How do I use feature X?", status |-> "resolved"],
      [customer_id |-> 1, title |-> "Billing inquiry",
       description |-> "Question about invoice", status |-> "resolved"],
      [customer_id |-> 1, title |-> "Account setup",
       description |-> "Need help setting up account", status |-> "resolved"],
      [customer_id |-> 1, title |-> "Technical support",
       description |-> "Issue resolved via email", status |-> "resolved"],
      [customer_id |-> 1, title |-> "Refund request",
       description |-> "Processing refund", status |-> "resolved"],
      [customer_id |-> 1, title |-> "Service outage",
       description |-> "Experiencing intermittent issues", status |-> "open"],
      [customer_id |-> 1, title |-> "Feature request",
       description |-> "Would like to see new feature", status |-> "open"],
      [customer_id |-> 1, title |-> "Performance concern",
       description |-> "System seems slow sometimes", status |-> "open"],
      [customer_id |-> 2, title |-> "Account question",
       description |-> "Question answered in documentation", status |-> "open"],
      [customer_id |-> 2, title |-> "Setup help",
       description |-> "Already provided via email", status |-> "open"],
      [customer_id |-> 1, title |-> "General inquiry",
       description |-> "Customer satisfied with response", status |-> "open"]>>

\* the ticket rows as added at utcnow: a resolved ticket gets its resolved time
SeededTicketsAt(utcnow) ==
    [id \in DOMAIN tickets_data |->
        [status |-> tickets_data[id].status,
         resolved_at |-> IF tickets_data[id].status = "resolved" THEN utcnow ELSE NoTime,
         title |-> tickets_data[id].title,
         description |-> tickets_data[id].description,
         customer_id |-> tickets_data[id].customer_id]]

SeededTickets == SeededTicketsAt(0)

-----------------------------------------------------------------------------
(* npc_manager/controls.py *)

\* fault: the flag is never read
check_kill_switchNeverSet == FALSE

check_kill_switch == killSwitch

\* fault: a tool name outside the mapping is taken for a read
classify_riskUnknownIsRead(tool_name, tool_args, env) ==
    IF tool_name \in {"update_ticket", "send_customer_email"}
    THEN [action_type |-> IF tool_name = "update_ticket" THEN "write" ELSE "external",
          risk_level |->
              IF tool_name = "send_customer_email" THEN "high"
              ELSE IF Has(tool_args, "status") /\ tool_args["status"] \in {"closed", "deleted"}
              THEN "high"
              ELSE IF env = "prod" THEN "medium" ELSE "low"]
    ELSE [action_type |-> "read", risk_level |-> "low"]

classify_risk(tool_name, tool_args, env) ==
    LET action_type ==
            CASE tool_name = "list_tickets" -> "read"
              [] tool_name = "update_ticket" -> "write"
              [] tool_name = "send_customer_email" -> "external"
              [] OTHER -> "write"
        risk_level ==
            CASE action_type = "read" -> "low"
              [] action_type = "write" ->
                    IF Has(tool_args, "status") /\ tool_args["status"] \in {"closed", "deleted"}
                    THEN "high"
                    ELSE IF env = "prod" THEN "medium" ELSE "low"
              [] action_type = "external" -> "high"
              [] OTHER -> "medium"
    IN  [action_type |-> action_type, risk_level |-> risk_level]

\* fault: the allowed_tools list is not consulted
check_permissionsNoToolList(profile, tool_name, tool_args) ==
    IF tool_name = "update_ticket" /\ profile.field_restrictions # {}
          /\ ~(DOMAIN tool_args \subseteq profile.field_restrictions)
    THEN [allowed |-> FALSE,
          reason |-> FieldsNotAllowed(DOMAIN tool_args \ profile.field_restrictions)]
    ELSE [allowed |-> TRUE, reason |-> NoReason]

\* fault: the key of the path parameter is exempt from the field restriction
check_permissionsPathIdExempt(profile, tool_name, tool_args) ==
    IF tool_name \notin profile.allowed_tools
    THEN [allowed |-> FALSE, reason |-> ToolNotAllowed(tool_name)]
    ELSE IF tool_name = "update_ticket" /\ profile.field_restrictions # {}
               /\ ~(DOMAIN tool_args \ {"ticket_id"} \subseteq profile.field_restrictions)
         THEN [allowed |-> FALSE,
               reason |-> FieldsNotAllowed(
                    (DOMAIN tool_args \ {"ticket_id"}) \ profile.field_restrictions)]
         ELSE [allowed |-> TRUE, reason |-> NoReason]

\* fault: the field restrictions are not consulted
check_permissionsNoFieldRestriction(profile, tool_name, tool_args) ==
    IF tool_name \notin profile.allowed_tools
    THEN [allowed |-> FALSE, reason |-> ToolNotAllowed(tool_name)]
    ELSE [allowed |-> TRUE, reason |-> NoReason]

check_permissions(profile, tool_name, tool_args) ==
    IF tool_name \notin profile.allowed_tools
    THEN [allowed |-> FALSE, reason |-> ToolNotAllowed(tool_name)]
    ELSE IF tool_name = "update_ticket" /\ profile.field_restrictions # {}
               /\ ~(DOMAIN tool_args \subseteq profile.field_restrictions)
         THEN [allowed |-> FALSE,
               reason |-> FieldsNotAllowed(DOMAIN tool_args \ profile.field_restrictions)]
         ELSE [allowed |-> TRUE, reason |-> NoReason]

\* fault: high risk asks for approval in prod only
requires_approvalProdOnly(action_type, risk_level, env) ==
    risk_level \in {"high", "medium"} /\ env = "prod"

requires_approval(action_type, risk_level, env) ==
    \/ risk_level = "high"
    \/ risk_level = "medium" /\ env = "prod"

\* the rows the count query of check_guardrail_max_updates selects
CountedRows(rows, agent_id, time_window) ==
    {r \in DOMAIN rows :
        /\ rows[r].agent_id = agent_id
        /\ rows[r].action_type = "write"
        /\ rows[r].timestamp >= time_window
        /\ rows[r].decision = "allow"}

\* fault: rows are counted whatever their decision
check_guardrail_max_updatesAnyDecision(rows, agent_id, session_id, utcnow) ==
    LET time_window == IF TruthyStr(session_id)
                       THEN utcnow - SessionWindow
                       ELSE utcnow - NoSessionWindow
        count == Cardinality({r \in DOMAIN rows :
                                /\ rows[r].agent_id = agent_id
                                /\ rows[r].action_type = "write"
                                /\ rows[r].timestamp >= time_window})
    IN  IF count >= max_updates
        THEN [allowed |-> FALSE, reason |-> WriteLimitExceeded(count)]
        ELSE [allowed |-> TRUE, reason |-> NoReason]

\* fault: the limit is compared with > in place of >=
check_guardrail_max_updatesOffByOne(rows, agent_id, session_id, utcnow) ==
    LET time_window == IF TruthyStr(session_id)
                       THEN utcnow - SessionWindow
                       ELSE utcnow - NoSessionWindow
        count == Cardinality(CountedRows(rows, agent_id, time_window))
    IN  IF count > max_updates
        THEN [allowed |-> FALSE, reason |-> WriteLimitExceeded(count)]
        ELSE [allowed |-> TRUE, reason |-> NoReason]

check_guardrail_max_updates(rows, agent_id, session_id, utcnow) ==
    LET time_window == IF TruthyStr(session_id)
                       THEN utcnow - SessionWindow
                       ELSE utcnow - NoSessionWindow
        count == Cardinality(CountedRows(rows, agent_id, time_window))
    IN  IF count >= max_updates
        THEN [allowed |-> FALSE, reason |-> WriteLimitExceeded(count)]
        ELSE [allowed |-> TRUE, reason |-> NoReason]

\* fault: the customer's flag is not looked up
check_guardrail_do_not_contactNoLookup(tool_name, tool_args) ==
    [allowed |-> TRUE, reason |-> NoReason]

check_guardrail_do_not_contact(tool_name, tool_args) ==
    IF tool_name # "send_customer_email"
    THEN [allowed |-> TRUE, reason |-> NoReason]
    ELSE IF ~TruthyArg(tool_args, "customer_id")
    THEN [allowed |-> TRUE, reason |-> NoReason]
    ELSE LET customer_id == tool_args["customer_id"]
         IN  IF customer_id \in DOMAIN customers /\ customers[customer_id]
             THEN [allowed |-> FALSE, reason |-> DoNotContact(customer_id)]
             ELSE [allowed |-> TRUE, reason |-> NoReason]

create_guardrail_event(events, request_id, guardrail_name, triggered, utcnow) ==
    Append(events, [request_id |-> request_id, guardrail |-> guardrail_name,
                    triggered |-> triggered, timestamp |-> utcnow])

-----------------------------------------------------------------------------
(* npc_manager/main.py: helpers *)

\* fault: the agent's status is not checked
get_agentAnyStatus(agent_id) ==
    IF agent_id \notin DOMAIN agents THEN 404 ELSE 200

\* 200 when the agent is found and active
get_agent(agent_id) ==
    IF agent_id \notin DOMAIN agents THEN 404
    ELSE IF agents[agent_id].status # "active" THEN 403
    ELSE 200

\* code 0: mapped; code 400: the HTTPException raised
map_tool_to_endpoint(tool_name, tool_args) ==
    CASE tool_name \notin KnownTools ->
            [code |-> 400, method |-> "", id |-> 0, body |-> << >>]
      [] tool_name = "list_tickets" ->
            [code |-> 0, method |-> "GET", id |-> 0, body |-> << >>]
      [] tool_name = "update_ticket" ->
            IF ~TruthyArg(tool_args, "ticket_id")
            THEN [code |-> 400, method |-> "", id |-> 0, body |-> << >>]
            ELSE [code |-> 0, method |-> "PATCH", id |-> tool_args["ticket_id"],
                  body |-> [k \in DOMAIN tool_args \ {"ticket_id"} |-> tool_args[k]]]
      [] OTHER ->
            IF ~TruthyArg(tool_args, "customer_id")
            THEN [code |-> 400, method |-> "", id |-> 0, body |-> << >>]
            ELSE [code |-> 0, method |-> "POST", id |-> tool_args["customer_id"],
                  body |-> [k \in DOMAIN tool_args \ {"customer_id"} |-> tool_args[k]]]

Operation(tool_name) ==
    CASE tool_name = "list_tickets" -> "GET"
      [] tool_name = "update_ticket" -> "PATCH"
      [] tool_name = "send_customer_email" -> "POST"
      [] OTHER -> "UNKNOWN"

-----------------------------------------------------------------------------
(* ticketing_api/main.py *)

\* fault: a status other than resolved and closed clears the resolved time
update_ticketClearsResolved(tix, ticket_id, ticket_update, utcnow) ==
    IF ticket_id \notin DOMAIN tix
    THEN [status_code |-> 404, tickets |-> tix]
    ELSE LET t1 == IF Has(ticket_update, "status")
                   THEN [tix[ticket_id] EXCEPT
                            !.status = ticket_update["status"],
                            !.resolved_at =
                                IF ticket_update["status"] \in {"resolved", "closed"}
                                THEN utcnow ELSE NoTime]
                   ELSE tix[ticket_id]
         IN  [status_code |-> 200, tickets |-> [tix EXCEPT ![ticket_id] = t1]]

\* PATCH /tickets/{ticket_id}: the status code and the tickets table
\* afterwards; TicketUpdate keeps status, title and description of the body
update_ticket(tix, ticket_id, ticket_update, utcnow) ==
    IF ticket_id \notin DOMAIN tix
    THEN [status_code |-> 404, tickets |-> tix]
    ELSE LET t1 == IF Has(ticket_update, "status")
                   THEN [tix[ticket_id] EXCEPT
                            !.status = ticket_update["status"],
                            !.resolved_at =
                                IF ticket_update["status"] \in {"resolved", "closed"}
                                THEN utcnow ELSE @]
                   ELSE tix[ticket_id]
             t2 == IF Has(ticket_update, "title")
                   THEN [t1 EXCEPT !.title = ticket_update["title"]] ELSE t1
             t3 == IF Has(ticket_update, "description")
                   THEN [t2 EXCEPT !.description = ticket_update["description"]] ELSE t2
         IN  [status_code |-> 200, tickets |-> [tix EXCEPT ![ticket_id] = t3]]

\* POST /customers/{customer_id}/email: EmailRequest needs subject and body
send_customer_email(customer_id, email_request) ==
    IF ~(Has(email_request, "subject") /\ Has(email_request, "body")) THEN 422
    ELSE IF customer_id \notin DOMAIN customers THEN 404
    ELSE 200

\* the ticketing API serving one request of the proxy
Serve(tix, endpoint, utcnow) ==
    CASE endpoint.method = "GET" -> [status_code |-> 200, tickets |-> tix]
      [] endpoint.method = "PATCH" -> update_ticket(tix, endpoint.id, endpoint.body, utcnow)
      [] OTHER -> [status_code |-> send_customer_email(endpoint.id, endpoint.body),
                   tickets |-> tix]

-----------------------------------------------------------------------------
(* npc_manager/main.py: POST /action *)

\* ActionResponse, and the HTTPException responses (status and decision "")
Response(http, request_id, status, decision, reason) ==
    [http |-> http, request_id |-> request_id, status |-> status,
     decision |-> decision, reason |-> reason]
NoResponse == Response(0, 0, "", "", NoReason)
HttpError(code) == Response(code, 0, "", "", NoReason)

\* request_id 0 stands for the empty request id
NoRequestId == 0

InFlight == {c \in 1..Len(calls) : calls[c].pc # "done"}

\* fault: the body's agent_id wins over the header
ResolvedAgentIdBodyFirst(req) ==
    IF TruthyStr(req.agent_id) THEN req.agent_id ELSE req.x_agent_id

\* x_agent_id or action_request.agent_id
ResolvedAgentId(req) ==
    IF TruthyStr(req.x_agent_id) THEN req.x_agent_id ELSE req.agent_id

ProfileOf(agent_id) == permissionProfiles[agents[agent_id].permission_profile_id]

\* the ActionRequest record of a handler, as added to the session
ActionRequestRow(call, decision, decision_reason) ==
    [request_id |-> call.request_id,
     agent_id |-> call.agent_id,
     timestamp |-> call.timestamp,
     env |-> call.req.env,
     action_type |-> call.action_type,
     operation |-> Operation(call.req.tool_name),
     risk_level |-> call.risk_level,
     approval_required |-> call.approval_required,
     decision |-> decision,
     decision_reason |-> decision_reason]

NewCall(req, agent_id, pc, request_id, class, response) ==
    [req |-> req, agent_id |-> agent_id, pc |-> pc, request_id |-> request_id,
     timestamp |-> now,
     action_type |-> class.action_type, risk_level |-> class.risk_level,
     approval_required |-> FALSE,
     reason |-> NoReason,
     kill_switch_on_arrival |-> killSwitch,
     approved |-> FALSE,
     status_code |-> 0, error |-> "",
     response |-> response]

NoClass == [action_type |-> "", risk_level |-> ""]

Finish(c, response) ==
    calls' = [calls EXCEPT ![c].pc = "done", ![c].response = response]

\* lines 133-198: identity, kill switch, classification, permission check
ReceiveAction(req) ==
    /\ LET agent_id == ResolvedAgentId(req)
           found == get_agent(agent_id)
           request_id == Len(calls) + 1
           class == classify_risk(req.tool_name, req.tool_args, req.env)
       IN  IF found # 200
           THEN /\ calls' = Append(calls,
                        NewCall(req, agent_id, "done", NoRequestId, NoClass, HttpError(found)))
                /\ UNCHANGED actionRequests
           ELSE IF check_kill_switch
           THEN /\ calls' = Append(calls,
                        NewCall(req, agent_id, "done", NoRequestId, NoClass,
                            Response(200, NoRequestId, "denied", "deny", KillSwitchReason)))
                /\ UNCHANGED actionRequests
           ELSE LET perm == check_permissions(ProfileOf(agent_id), req.tool_name, req.tool_args)
                    denied == NewCall(req, agent_id, "done", request_id, class,
                                  Response(200, request_id, "denied", "deny", perm.reason))
                IN  IF ~perm.allowed
                    THEN /\ calls' = Append(calls, denied)
                         /\ actionRequests' = actionRequests @@
                                (request_id :> ActionRequestRow(denied, "deny", perm.reason))
                    ELSE /\ calls' = Append(calls,
                                NewCall(req, agent_id,
                                    IF class.action_type = "write"
                                    THEN "write_limit" ELSE "do_not_contact",
                                    request_id, class, NoResponse))
                         /\ UNCHANGED actionRequests
    /\ UNCHANGED <<now, killSwitch, approvals, executions, guardrailEvents,
                   downstream, tickets>>
    /\ UNCHANGED <<fixtures, outside>>

\* lines 200-220: the write-limit guardrail and its event
CheckWriteLimit(c) ==
    /\ c \in InFlight
    /\ calls[c].pc = "write_limit"
    /\ LET call == calls[c]
           check == check_guardrail_max_updates(actionRequests, call.agent_id,
                                                call.req.session_id, now)
       IN  /\ guardrailEvents' = create_guardrail_event(guardrailEvents,
                    call.request_id, "max_ticket_updates_per_run", ~check.allowed, now)
           /\ calls' = [calls EXCEPT
                    ![c].pc = IF check.allowed THEN "do_not_contact" ELSE "deny",
                    ![c].reason = check.reason]
    /\ UNCHANGED <<now, killSwitch, actionRequests, approvals, executions,
                   downstream, tickets>>
    /\ UNCHANGED <<fixtures, outside>>

\* fault: a passed do-not-contact check is recorded whatever the tool
CheckDoNotContactAlwaysRecords(c) ==
    /\ c \in InFlight
    /\ calls[c].pc = "do_not_contact"
    /\ LET call == calls[c]
           check == check_guardrail_do_not_contact(call.req.tool_name, call.req.tool_args)
           name == "block_external_email_if_customer_do_not_contact"
       IN  /\ guardrailEvents' = create_guardrail_event(guardrailEvents,
                    call.request_id, name, ~check.allowed, now)
           /\ calls' = [calls EXCEPT
                    ![c].pc = IF check.allowed THEN "persist" ELSE "deny",
                    ![c].reason = check.reason]
    /\ UNCHANGED <<now, killSwitch, actionRequests, approvals, executions,
                   downstream, tickets>>
    /\ UNCHANGED <<fixtures, outside>>

\* lines 222-241: the do-not-contact guardrail and its event
CheckDoNotContact(c) ==
    /\ c \in InFlight
    /\ calls[c].pc = "do_not_contact"
    /\ LET call == calls[c]
           check == check_guardrail_do_not_contact(call.req.tool_name, call.req.tool_args)
           name == "block_external_email_if_customer_do_not_contact"
       IN  /\ guardrailEvents' =
                    IF ~check.allowed
                    THEN create_guardrail_event(guardrailEvents, call.request_id,
                                                name, TRUE, now)
                    ELSE IF call.req.tool_name = "send_customer_email"
                    THEN create_guardrail_event(guardrailEvents, call.request_id,
                                                name, FALSE, now)
                    ELSE guardrailEvents
           /\ calls' = [calls EXCEPT
                    ![c].pc = IF check.allowed THEN "persist" ELSE "deny",
                    ![c].reason = check.reason]
    /\ UNCHANGED <<now, killSwitch, actionRequests, approvals, executions,
                   downstream, tickets>>
    /\ UNCHANGED <<fixtures, outside>>

\* lines 210-219 and 230-239: the denial of a guardrail is persisted and returned
DenyByGuardrail(c) ==
    /\ c \in InFlight
    /\ calls[c].pc = "deny"
    /\ LET call == calls[c]
       IN  /\ actionRequests' = actionRequests @@
                    (call.request_id :> ActionRequestRow(call, "deny", call.reason))
           /\ Finish(c, Response(200, call.request_id, "denied", "deny", call.reason))
    /\ UNCHANGED <<now, killSwitch, approvals, executions, guardrailEvents,
                   downstream, tickets>>
    /\ UNCHANGED <<fixtures, outside>>

\* lines 243-252: approval_required is set and the record is persisted, pending
PersistRequest(c) ==
    /\ c \in InFlight
    /\ calls[c].pc = "persist"
    /\ LET call == calls[c]
           approval_required ==
               requires_approval(call.action_type, call.risk_level, call.req.env)
           persisted == [call EXCEPT !.approval_required = approval_required]
       IN  /\ actionRequests' = actionRequests @@
                    (call.request_id :> ActionRequestRow(persisted, "pending", NoReason))
           /\ calls' = [calls EXCEPT
                    ![c].approval_required = approval_required,
                    ![c].pc = IF approval_required THEN "approval" ELSE "dispatch"]
    /\ UNCHANGED <<now, killSwitch, approvals, executions, guardrailEvents,
                   downstream, tickets>>
    /\ UNCHANGED <<fixtures, outside>>

-----------------------------------------------------------------------------
(* npc_manager/approval.py *)

\* input(...).strip().lower() of the lines an operator may type
ConsoleLines == {"y", "YES", " n", "No", "maybe", ""}
StripLower(line) ==
    CASE line = "YES" -> "yes"
      [] line = " n" -> "n"
      [] line = "No" -> "no"
      [] OTHER -> line

Approval(request_id, approved) ==
    [request_id |-> request_id,
     status |-> IF approved THEN "approved" ELSE "rejected",
     approver |-> "cli_user",
     channel |-> "cli"]

\* fault: a line that is not a yes counts as a no, without asking again
PromptLineDefaultNo(c, line) ==
    /\ c \in InFlight
    /\ calls[c].pc = "approval"
    /\ LET approved == StripLower(line) \in {"y", "yes"}
       IN  /\ approvals' = Append(approvals, Approval(calls[c].request_id, approved))
           /\ calls' = [calls EXCEPT ![c].approved = approved,
                                     ![c].pc = "approval_decision"]
    /\ UNCHANGED <<now, killSwitch, actionRequests, executions, guardrailEvents,
                   downstream, tickets>>
    /\ UNCHANGED <<fixtures, scripts>>

\* lines 33-62: one line of the prompt loop; a yes/no answer ends the loop and
\* the Approval row is committed
PromptLine(c, line) ==
    /\ c \in InFlight
    /\ calls[c].pc = "approval"
    /\ LET response == StripLower(line)
       IN  IF response \in {"y", "yes"} \/ response \in {"n", "no"}
           THEN LET approved == response \in {"y", "yes"}
                IN  /\ approvals' = Append(approvals, Approval(calls[c].request_id, approved))
                    /\ calls' = [calls EXCEPT ![c].approved = approved,
                                              ![c].pc = "approval_decision"]
           ELSE UNCHANGED <<calls, approvals>>
    /\ UNCHANGED <<now, killSwitch, actionRequests, executions, guardrailEvents,
                   downstream, tickets>>
    /\ UNCHANGED <<fixtures, scripts>>

\* the prompt loop, the terminal's content left aside
AnswerPrompt(c, line) ==
    /\ PromptLine(c, line)
    /\ UNCHANGED console

\* the prompt loop, the line the operator typed kept on the terminal
TypeLine(c, line) ==
    /\ PromptLine(c, line)
    /\ console' = [call |-> c, line |-> line]

\* fault: the handler goes on to the downstream call whatever the answer was
RecordApprovalDecisionThenDispatch(c) ==
    /\ c \in InFlight
    /\ calls[c].pc = "approval_decision"
    /\ actionRequests' = [actionRequests EXCEPT
            ![calls[c].request_id].decision =
                IF calls[c].approved THEN "allow" ELSE "deny",
            ![calls[c].request_id].decision_reason =
                ApprovalVia(IF calls[c].approved THEN "approved" ELSE "rejected")]
    /\ calls' = [calls EXCEPT ![c].pc = "dispatch"]
    /\ UNCHANGED <<now, killSwitch, approvals, executions, guardrailEvents,
                   downstream, tickets>>
    /\ UNCHANGED <<fixtures, outside>>

\* fault: a rejection is returned without the decision being written
RecordApprovalDecisionReturnsEarly(c) ==
    /\ c \in InFlight
    /\ calls[c].pc = "approval_decision"
    /\ LET call == calls[c]
       IN  IF call.approved
           THEN /\ actionRequests' = [actionRequests EXCEPT
                        ![call.request_id].decision = "allow",
                        ![call.request_id].decision_reason = ApprovalVia("approved")]
                /\ calls' = [calls EXCEPT ![c].pc = "dispatch"]
           ELSE /\ UNCHANGED actionRequests
                /\ Finish(c, Response(200, call.request_id, "denied", "deny",
                                      ApprovalRejected))
    /\ UNCHANGED <<now, killSwitch, approvals, executions, guardrailEvents,
                   downstream, tickets>>
    /\ UNCHANGED <<fixtures, outside>>

\* lines 64-69 and main.py lines 253-262: the decision is written to the
\* ActionRequest; a rejection is returned
RecordApprovalDecision(c) ==
    /\ c \in InFlight
    /\ calls[c].pc = "approval_decision"
    /\ LET call == calls[c]
       IN  /\ actionRequests' = [actionRequests EXCEPT
                    ![call.request_id].decision =
                        IF call.approved THEN "allow" ELSE "deny",
                    ![call.request_id].decision_reason =
                        ApprovalVia(IF call.approved THEN "approved" ELSE "rejected")]
           /\ IF call.approved
              THEN calls' = [calls EXCEPT ![c].pc = "dispatch"]
              ELSE Finish(c, Response(200, call.request_id, "denied", "deny",
                                      ApprovalRejected))
    /\ UNCHANGED <<now, killSwitch, approvals, executions, guardrailEvents,
                   downstream, tickets>>
    /\ UNCHANGED <<fixtures, outside>>

-----------------------------------------------------------------------------
(* npc_manager/main.py: the downstream call *)

\* what the network does to one call of httpx: it is served and answered, it
\* never arrives, or it is served and the answer is lost (timeout)
Network == {"answered", "unreachable", "timeout"}

DownstreamRequest(request_id, endpoint) ==
    [request_id |-> request_id, method |-> endpoint.method, id |-> endpoint.id]

\* lines 264-284: the endpoint is mapped and the call is issued
Dispatch(c, net) ==
    /\ c \in InFlight
    /\ calls[c].pc = "dispatch"
    /\ LET call == calls[c]
           endpoint == map_tool_to_endpoint(call.req.tool_name, call.req.tool_args)
           served == Serve(tickets, endpoint, now)
       IN  IF endpoint.code # 0
           THEN /\ calls' = [calls EXCEPT ![c].pc = "record",
                                          ![c].error = "HTTPException 400"]
                /\ UNCHANGED <<downstream, tickets>>
           ELSE IF net = "unreachable"
           THEN /\ calls' = [calls EXCEPT ![c].pc = "record",
                                          ![c].error = "ConnectError"]
                /\ UNCHANGED <<downstream, tickets>>
           ELSE /\ downstream' = Append(downstream,
                        DownstreamRequest(call.request_id, endpoint))
                /\ tickets' = served.tickets
                /\ calls' = [calls EXCEPT
                        ![c].pc = "record",
                        ![c].status_code = IF net = "answered" THEN served.status_code ELSE 0,
                        ![c].error = IF net = "answered" THEN "" ELSE "ReadTimeout"]
    /\ UNCHANGED <<now, killSwitch, actionRequests, approvals, executions,
                   guardrailEvents>>
    /\ UNCHANGED <<fixtures, outside>>

Execution(request_id, downstream_status, error) ==
    [request_id |-> request_id, downstream_system |-> "business_api",
     downstream_status |-> downstream_status, error |-> error]

\* RecordExecution with one fault: "no_row" writes no Execution row when the
\* call raised, "structured" answers a raised call with a deny payload in place
\* of the HTTP 500, "allow" stores decision allow whatever the downstream status
RecordExecutionFaulty(c, fault) ==
    /\ c \in InFlight
    /\ calls[c].pc = "record"
    /\ LET call == calls[c]
           ok == call.status_code < 400
       IN  IF call.error # ""
           THEN /\ executions' = IF fault = "no_row" THEN executions
                                 ELSE Append(executions,
                                             Execution(call.request_id, 500, call.error))
                /\ actionRequests' = [actionRequests EXCEPT
                        ![call.request_id].decision = "deny",
                        ![call.request_id].decision_reason = ExecutionError(500)]
                /\ IF fault = "structured"
                   THEN Finish(c, Response(200, call.request_id, "denied", "deny",
                                           ExecutionError(500)))
                   ELSE Finish(c, HttpError(500))
           ELSE /\ executions' = Append(executions,
                        Execution(call.request_id, call.status_code, ""))
                /\ actionRequests' = [actionRequests EXCEPT
                        ![call.request_id].decision =
                            IF ok \/ fault = "allow" THEN "allow" ELSE "deny",
                        ![call.request_id].decision_reason =
                            IF ok THEN ExecutedSuccessfully ELSE HttpStatus(call.status_code)]
                /\ IF ok
                   THEN Finish(c, Response(200, call.request_id, "executed", "allow",
                                           NoReason))
                   ELSE Finish(c, Response(200, call.request_id, "error", "deny",
                                           DownstreamReturned(call.status_code)))
    /\ UNCHANGED <<now, killSwitch, approvals, guardrailEvents, downstream, tickets>>
    /\ UNCHANGED <<fixtures, outside>>

\* fault: a call that raised leaves no Execution row
RecordExecutionNoRowOnError(c) == RecordExecutionFaulty(c, "no_row")
\* fault: a call that raised is answered with a structured deny
RecordExecutionStructuredDeny(c) == RecordExecutionFaulty(c, "structured")
\* fault: the stored decision is allow whatever the downstream status
RecordExecutionAlwaysAllow(c) == RecordExecutionFaulty(c, "allow")

\* lines 286-334: the Execution row and the final decision are committed, and
\* the response (or the HTTP 500) is returned
RecordExecution(c) ==
    /\ c \in InFlight
    /\ calls[c].pc = "record"
    /\ LET call == calls[c]
           ok == call.status_code < 400
       IN  IF call.error # ""
           THEN /\ executions' = Append(executions,
                        Execution(call.request_id, 500, call.error))
                /\ actionRequests' = [actionRequests EXCEPT
                        ![call.request_id].decision = "deny",
                        ![call.request_id].decision_reason = ExecutionError(500)]
                /\ Finish(c, HttpError(500))
           ELSE /\ executions' = Append(executions,
                        Execution(call.request_id, call.status_code, ""))
                /\ actionRequests' = [actionRequests EXCEPT
                        ![call.request_id].decision = IF ok THEN "allow" ELSE "deny",
                        ![call.request_id].decision_reason =
                            IF ok THEN ExecutedSuccessfully ELSE HttpStatus(call.status_code)]
                /\ IF ok
                   THEN Finish(c, Response(200, call.request_id, "executed", "allow",
                                           NoReason))
                   ELSE Finish(c, Response(200, call.request_id, "error", "deny",
                                           DownstreamReturned(call.status_code)))
    /\ UNCHANGED <<now, killSwitch, approvals, guardrailEvents, downstream, tickets>>
    /\ UNCHANGED <<fixtures, outside>>

-----------------------------------------------------------------------------
(* scripts/demo.py, act 4: the operator's writes to ManagerControl *)

EnableKillSwitch ==
    /\ killSwitch' = TRUE
    /\ UNCHANGED <<now, calls, actionRequests, approvals, executions,
                   guardrailEvents, downstream, tickets>>
    /\ UNCHANGED <<fixtures, outside>>

DisableKillSwitch ==
    /\ killSwitch' = FALSE
    /\ UNCHANGED <<now, calls, actionRequests, approvals, executions,
                   guardrailEvents, downstream, tickets>>
    /\ UNCHANGED <<fixtures, outside>>

-----------------------------------------------------------------------------
(* Time: the instants at which the two windows of the write limit open and close *)

Instants == {0, NoSessionWindow, NoSessionWindow + 1, SessionWindow, SessionWindow + 1}

Tick ==
    /\ \E t \in Instants : t > now /\ now' = t
    /\ UNCHANGED <<killSwitch, calls, actionRequests, approvals, executions,
                   guardrailEvents, downstream, tickets>>
    /\ UNCHANGED <<fixtures, outside>>

-----------------------------------------------------------------------------
(* The requests of the specifications *)

Request(agent_id, x_agent_id, session_id, tool_name, tool_args, env) ==
    [agent_id |-> agent_id, x_agent_id |-> x_agent_id, session_id |-> session_id,
     tool_name |-> tool_name, tool_args |-> tool_args, env |-> env]

CloseTicket(id) == ("ticket_id" :> id) @@ ("status" :> "closed")
Email(id) == ("customer_id" :> id) @@ ("subject" :> "Test") @@ ("body" :> "Test email")
NoArgs == << >>

\* Spec: identity, kill switch and approval
Requests ==
    {Request(a, None, None, "list_tickets", NoArgs, "prod") :
        a \in {"agent-support-001", "agent-paused", "agent-revoked", "agent-ghost"}}
    \cup {Request("agent-ops", None, None, "update_ticket", CloseTicket(7), "prod"),
          Request("agent-support-001", None, None, "send_customer_email", Email(2), "prod")}

\* SpecPolicy: permissions, guardrails and dispatch
PolicyRequests ==
    {Request("agent-reader", None, None, "send_customer_email", Email(1), "prod"),
     Request("agent-support-001", None, None, "send_customer_email", Email(2), "prod"),
     Request("agent-ops", None, None, "send_customer_email", Email(2), "prod"),
     Request("agent-support-001", None, None, "update_ticket", CloseTicket(7), "prod"),
     Request("agent-ops", None, None, "update_ticket", CloseTicket(7), "prod"),
     Request("agent-ops", None, None, "delete_ticket", CloseTicket(7), "prod")}

NoPayload == << >>
NoHash == None

\* nothing hashed
InitHashing ==
    /\ payload = NoPayload
    /\ payload_hash = NoHash

\* the agent process has its API key and runs nothing
InitAgent ==
    /\ environ = "OPENAI_API_KEY" :> "sk-test"
    /\ run = [pc |-> "idle", session_id |-> None]
    /\ toolCalls = << >>

\* no ServiceManager block is open
InitScope ==
    /\ scope = [pc |-> "outside", services |-> << >>]
    /\ processes = << >>
    /\ children = << >>

\* no prompt has been answered
NoLine == [call |-> 0, line |-> None]
InitConsole == console = NoLine

\* act 4 has not begun
InitAct4 == act4 = [pc |-> "not_started", enabled |-> FALSE, worked |-> FALSE,
                    returned |-> FALSE]

\* the demo has not been launched
InitDemo == demo = [pc |-> "not_started", reset |-> FALSE, results |-> << >>,
                    code |-> 0, why |-> "running"]

InitOutside ==
    /\ InitHashing
    /\ InitAgent
    /\ InitScope
    /\ InitDemo
    /\ InitConsole
    /\ InitAct4

\* both stores as seeded, no request received
InitServices ==
    /\ now = 0
    /\ killSwitch = FALSE
    /\ calls = << >>
    /\ actionRequests = << >>
    /\ approvals = << >>
    /\ executions = << >>
    /\ guardrailEvents = << >>
    /\ downstream = << >>
    /\ tickets = SeededTickets
    /\ customers = Customers
    /\ agents = Agents
    /\ permissionProfiles = PermissionProfiles
    /\ controlIds = {1}
    /\ setup = [pc |-> "idle", runs |-> 0]

Init ==
    /\ InitOutside
    /\ InitServices

Guardrails ==
    \/ \E c \in 1..Len(calls) : CheckWriteLimit(c)
    \/ \E c \in 1..Len(calls) : CheckDoNotContact(c)
    \/ \E c \in 1..Len(calls) : DenyByGuardrail(c)
    \/ \E c \in 1..Len(calls) : PersistRequest(c)
    \/ \E c \in 1..Len(calls) : RecordApprovalDecision(c)
    \/ \E c \in 1..Len(calls) : RecordExecution(c)

Pipeline ==
    \/ Guardrails
    \/ \E c \in 1..Len(calls), line \in ConsoleLines : AnswerPrompt(c, line)
    \/ \E c \in 1..Len(calls), net \in Network : Dispatch(c, net)
    \/ EnableKillSwitch
    \/ DisableKillSwitch

Next ==
    \/ \E req \in Requests : Len(calls) < MaxCalls /\ ReceiveAction(req)
    \/ Pipeline

Spec == Init /\ [][Next]_vars

NextPolicy ==
    \/ \E req \in PolicyRequests : Len(calls) < MaxCalls /\ ReceiveAction(req)
    \/ Pipeline

SpecPolicy == Init /\ [][NextPolicy]_vars

\* SpecBurst: one agent's update_ticket calls with no session id, issued one
\* after another, the operator approving and the ticketing API answering
BurstRequest == Request("agent-ops", None, None, "update_ticket", CloseTicket(7), "prod")

NextBurst ==
    \/ /\ Len(calls) < BurstCalls
       /\ InFlight = {}
       /\ ReceiveAction(BurstRequest)
    \/ Guardrails
    \/ \E c \in 1..Len(calls) : AnswerPrompt(c, "y")
    \/ \E c \in 1..Len(calls) : Dispatch(c, "answered")
    \/ Tick

SpecBurst == Init /\ [][NextBurst]_vars

\* SpecWindow: one update_ticket call of agent-ops, with or without a session
\* id, against an audit store that earlier traffic has filled

\* an earlier request: who sent what when, and the decision its row ended with
Earlier(agent_id, tool_name, tool_args, decision, timestamp) ==
    [req |-> Request(agent_id, None, None, tool_name, tool_args, "prod"),
     agent_id |-> agent_id, decision |-> decision, timestamp |-> timestamp]

\* the kinds of earlier requests that the count query must leave out
OtherRows ==
    [k \in {"other_agent", "read", "external", "denied", "pending"} |->
        CASE k = "other_agent" ->
                Earlier("agent-batch", "update_ticket", CloseTicket(7), "allow", 1)
          [] k = "read" ->
                Earlier("agent-ops", "list_tickets", NoArgs, "allow", 1)
          [] k = "external" ->
                Earlier("agent-ops", "send_customer_email", Email(1), "allow", 1)
          [] k = "denied" ->
                Earlier("agent-ops", "update_ticket", CloseTicket(7), "deny", 1)
          [] OTHER ->
                Earlier("agent-ops", "update_ticket", CloseTicket(7), "pending", 1)]

Repeat(x, n) == [i \in 1..n |-> x]

\* a writes of agent-ops at instant 0, b at instant 1, and two requests of
\* each of the other kinds chosen
History(a, b, others) ==
    LET kinds == <<"other_agent", "read", "external", "denied", "pending">>
        Rows(k) == IF kinds[k] \in others THEN Repeat(OtherRows[kinds[k]], 2) ELSE << >>
    IN  Repeat(Earlier("agent-ops", "update_ticket", CloseTicket(7), "allow", 0), a)
        \o Repeat(Earlier("agent-ops", "update_ticket", CloseTicket(7), "allow", 1), b)
        \o Rows(1) \o Rows(2) \o Rows(3) \o Rows(4) \o Rows(5)

\* the request id of the i-th earlier request; the call of SpecWindow gets 1
EarlierId(i) == i + 1

\* the rows execute_action and request_approval left for an earlier request
EarlierClass(h) == classify_risk(h.req.tool_name, h.req.tool_args, h.req.env)
EarlierNeedsApproval(h) ==
    requires_approval(EarlierClass(h).action_type, EarlierClass(h).risk_level, h.req.env)
EarlierActionRequest(i, h) ==
    [request_id |-> EarlierId(i),
     agent_id |-> h.agent_id,
     timestamp |-> h.timestamp,
     env |-> h.req.env,
     action_type |-> EarlierClass(h).action_type,
     operation |-> Operation(h.req.tool_name),
     risk_level |-> EarlierClass(h).risk_level,
     approval_required |-> EarlierNeedsApproval(h),
     decision |-> h.decision,
     decision_reason |->
        CASE h.decision = "allow" -> ExecutedSuccessfully
          [] h.decision = "deny" -> ApprovalVia("rejected")
          [] OTHER -> NoReason]
EarlierApprovals(i, h) ==
    IF EarlierNeedsApproval(h) /\ h.decision # "pending"
    THEN <<Approval(EarlierId(i), h.decision = "allow")>> ELSE << >>
EarlierExecutions(i, h) ==
    IF h.decision = "allow" THEN <<Execution(EarlierId(i), 200, "")>> ELSE << >>
EarlierDownstream(i, h) ==
    IF h.decision = "allow"
    THEN <<DownstreamRequest(EarlierId(i),
                             map_tool_to_endpoint(h.req.tool_name, h.req.tool_args))>>
    ELSE << >>
EarlierGuardrailEvents(i, h) ==
    CASE EarlierClass(h).action_type = "write" ->
            create_guardrail_event(<< >>, EarlierId(i), "max_ticket_updates_per_run",
                                   FALSE, h.timestamp)
      [] h.req.tool_name = "send_customer_email" ->
            create_guardrail_event(<< >>, EarlierId(i),
                                   "block_external_email_if_customer_do_not_contact",
                                   FALSE, h.timestamp)
      [] OTHER -> << >>

RECURSIVE Flatten(_)
Flatten(ss) == IF ss = << >> THEN << >> ELSE Head(ss) \o Flatten(Tail(ss))

\* the stores after the requests of `history', at instant t
InitHistory(history, t) ==
    LET n == Len(history)
    IN  /\ now = t
        /\ killSwitch = FALSE
        /\ calls = << >>
        /\ actionRequests =
              [r \in {EarlierId(i) : i \in 1..n} |->
                  EarlierActionRequest(r - 1, history[r - 1])]
        /\ approvals = Flatten([i \in 1..n |-> EarlierApprovals(i, history[i])])
        /\ executions = Flatten([i \in 1..n |-> EarlierExecutions(i, history[i])])
        /\ guardrailEvents =
              Flatten([i \in 1..n |-> EarlierGuardrailEvents(i, history[i])])
        /\ downstream = Flatten([i \in 1..n |-> EarlierDownstream(i, history[i])])
        /\ tickets = IF \E i \in 1..n : history[i].decision = "allow"
                                          /\ history[i].req.tool_name = "update_ticket"
                     THEN update_ticket(SeededTickets, 7, CloseTicket(7), 0).tickets
                     ELSE SeededTickets

InitWindow ==
    /\ InitOutside
    /\ customers = Customers
    /\ agents = Agents
    /\ permissionProfiles = PermissionProfiles
    /\ controlIds = {1}
    /\ setup = [pc |-> "idle", runs |-> 0]
    /\ \E a \in 0..HistoryRows, b \in 0..HistoryRows,
       others \in SUBSET DOMAIN OtherRows, t \in Instants \ {0} :
          InitHistory(History(a, b, others), t)

SessionIds == {None, "", "s1", "s2"}

WindowRequests ==
    {Request("agent-ops", None, s, "update_ticket", CloseTicket(7), "prod") :
        s \in SessionIds}

NextWindow ==
    \/ \E req \in WindowRequests : calls = << >> /\ ReceiveAction(req)
    \/ Guardrails
    \/ \E c \in 1..Len(calls) : AnswerPrompt(c, "y")
    \/ \E c \in 1..Len(calls) : Dispatch(c, "answered")

SpecWindow == InitWindow /\ [][NextWindow]_vars

\* SpecDispatch: requests that end at each stage of the pipeline, among them
\* requests whose arguments lack the id of the endpoint's path and a request
\* for a ticket the ticketing store does not hold, issued one after another
DispatchRequests ==
    {Request("agent-support-001", None, None, "update_ticket",
             "status" :> "closed", "prod"),
     Request("agent-ops", None, None, "send_customer_email",
             ("subject" :> "Test") @@ ("body" :> "Test email"), "prod"),
     Request("agent-ops", None, None, "update_ticket", CloseTicket(99), "prod"),
     Request("agent-ops", None, None, "update_ticket", CloseTicket(7), "prod"),
     Request("agent-support-001", None, None, "update_ticket", CloseTicket(7), "prod"),
     Request("agent-support-001", None, None, "send_customer_email", Email(2), "prod"),
     Request("agent-support-001", None, None, "list_tickets", NoArgs, "prod")}

NextDispatch ==
    \/ \E req \in DispatchRequests :
          Len(calls) < MaxCalls /\ InFlight = {} /\ ReceiveAction(req)
    \/ Pipeline

SpecDispatch == Init /\ [][NextDispatch]_vars

\* SpecClassify: one call, drawn from every combination of agent, tool name,
\* argument keys, status argument and env
ClassifyArgs ==
    {NoArgs,
     "status" :> "open", "status" :> "closed", "status" :> "deleted",
     CloseTicket(7),
     ("ticket_id" :> 7) @@ ("status" :> "open"),
     ("ticket_id" :> 7) @@ ("title" :> "Refund"),
     ("status" :> "closed") @@ ("title" :> "Refund"),
     Email(1), Email(2)}

ClassifyRequests ==
    {Request(a, None, None, t, args, env) :
        a \in {"agent-support-001", "agent-dev", "agent-ops"},
        t \in KnownTools \cup {"delete_ticket"},
        args \in ClassifyArgs,
        env \in {"prod", "dev"}}

NextClassify ==
    \/ \E req \in ClassifyRequests : calls = << >> /\ ReceiveAction(req)
    \/ Guardrails
    \/ \E c \in 1..Len(calls), line \in {"y", "No"} : AnswerPrompt(c, line)
    \/ \E c \in 1..Len(calls) : Dispatch(c, "answered")

SpecClassify == Init /\ [][NextClassify]_vars

\* SpecTickets: PATCH /tickets/{id} calls made to the ticketing API directly,
\* as time passes
PatchIds == {1, 7, 99}

\* TicketUpdate bodies: any of status, title and description, status being any
\* string
TicketUpdates ==
    {[k \in keys |-> CASE k = "status" -> st
                       [] k = "title" -> "Refund"
                       [] OTHER -> "Paid"] :
        keys \in SUBSET {"status", "title", "description"},
        st \in {"open", "in_progress", "resolved", "closed", "deleted"}}

PatchTicket(ticket_id, ticket_update) ==
    /\ tickets' = update_ticket(tickets, ticket_id, ticket_update, now).tickets
    /\ UNCHANGED <<now, killSwitch, calls, actionRequests, approvals, executions,
                   guardrailEvents, downstream>>
    /\ UNCHANGED <<fixtures, outside>>

NextTickets ==
    \/ \E ticket_id \in PatchIds, ticket_update \in TicketUpdates :
          PatchTicket(ticket_id, ticket_update)
    \/ Tick

SpecTickets == Init /\ [][NextTickets]_vars


Done(c) == calls[c].pc = "done"

\* the rows of a table (a sequence) that carry a request id
RowsOf(table, request_id) ==
    {i \in 1..Len(table) : table[i].request_id = request_id}

Persisted(request_id) == request_id \in DOMAIN actionRequests

\* the request passed identity resolution and the kill-switch check
Admitted(c) ==
    /\ calls[c].agent_id \in DOMAIN agents
    /\ agents[calls[c].agent_id].status = "active"
    /\ ~calls[c].kill_switch_on_arrival

\* the call that a step of ReceiveAction has added
Arrived == calls'[Len(calls')]

NoRowWritten == UNCHANGED <<actionRequests, approvals, executions, guardrailEvents,
                            downstream, tickets>>

KillSwitchDenial == Response(200, NoRequestId, "denied", "deny", KillSwitchReason)

\* C1: a downstream call of a request that requires approval is issued only
\* once an approved Approval row of that request is persisted; a rejected
\* request has no downstream call and no Execution row, and its ActionRequest
\* ends with decision deny.
C1_ApprovalGatesDownstream ==
    /\ \A d \in 1..Len(downstream) :
        LET request_id == downstream[d].request_id
        IN  /\ Persisted(request_id)
            /\ actionRequests[request_id].approval_required =>
                  \E a \in RowsOf(approvals, request_id) : approvals[a].status = "approved"
    /\ \A a \in 1..Len(approvals) :
        approvals[a].status = "rejected" =>
            LET request_id == approvals[a].request_id
            IN  /\ RowsOf(downstream, request_id) = {}
                /\ RowsOf(executions, request_id) = {}
                /\ calls[request_id].pc \in {"approval_decision", "done"}
                /\ Done(request_id) =>
                      /\ actionRequests[request_id].decision = "deny"
                      /\ calls[request_id].response.decision = "deny"

\* C1 witness: one request was rejected and has ended, another was approved
\* and its downstream call is issued
C1_Witness ==
    /\ \E a \in 1..Len(approvals) :
        approvals[a].status = "rejected" /\ Done(approvals[a].request_id)
    /\ \E d \in 1..Len(downstream) :
        /\ actionRequests[downstream[d].request_id].approval_required
        /\ \E a \in RowsOf(approvals, downstream[d].request_id) :
              approvals[a].status = "approved"

\* C2 as stated: while the kill switch is enabled, every /action call returns
\* the kill-switch denial and writes no row.
C2_EveryCallDenied ==
    [][(Len(calls') = Len(calls) + 1 /\ killSwitch) =>
            (Arrived.response = KillSwitchDenial /\ NoRowWritten)]_vars

\* C2 (amended): while the kill switch is enabled, every /action call of a known,
\* active agent returns decision deny with reason "Global kill switch is
\* enabled", has no request id and writes no row; with the switch disabled such
\* a call is not denied by the kill switch and gets a request id.
C2_ActiveCallsDenied ==
    [][(/\ Len(calls') = Len(calls) + 1
        /\ Arrived.agent_id \in DOMAIN agents
        /\ agents[Arrived.agent_id].status = "active") =>
            IF killSwitch
            THEN /\ Arrived.response = KillSwitchDenial
                 /\ Arrived.pc = "done"
                 /\ NoRowWritten
            ELSE /\ Arrived.response # KillSwitchDenial
                 /\ Arrived.request_id # NoRequestId]_vars

\* C2 witness: a call was denied by the kill switch, and a later call, made
\* with the switch disabled again, got a request id
C2_Witness ==
    \E c, d \in 1..Len(calls) :
        /\ c < d
        /\ calls[c].response = KillSwitchDenial
        /\ ~calls[d].kill_switch_on_arrival
        /\ calls[d].request_id # NoRequestId

\* C3: while the kill switch is enabled no downstream call is issued.
C3_NoDownstreamWhileKilled ==
    [][Len(downstream') > Len(downstream) => ~killSwitch]_vars

\* C4: a request of a paused or revoked agent fails with 403 and a request of
\* an unknown agent with 404, whatever the kill switch says, and no row is
\* written and no downstream call made.
C4_InactiveAgentsRejected ==
    [][Len(calls') = Len(calls) + 1 =>
            LET agent_id == ResolvedAgentId(Arrived.req)
            IN  /\ agent_id \notin DOMAIN agents =>
                      /\ Arrived.response = HttpError(404)
                      /\ Arrived.pc = "done"
                      /\ NoRowWritten
                /\ (agent_id \in DOMAIN agents
                      /\ agents[agent_id].status \in {"paused", "revoked"}) =>
                      /\ Arrived.response = HttpError(403)
                      /\ Arrived.pc = "done"
                      /\ NoRowWritten]_vars

\* C4 witness: with the kill switch enabled, a paused agent's call got 403 and
\* an unknown agent's call 404
C4_Witness ==
    \E c, d \in 1..Len(calls) :
        /\ calls[c].kill_switch_on_arrival
        /\ calls[c].agent_id \in DOMAIN agents
        /\ agents[calls[c].agent_id].status = "paused"
        /\ calls[c].response = HttpError(403)
        /\ calls[d].agent_id \notin DOMAIN agents
        /\ calls[d].response = HttpError(404)

\* C5: a call of an active agent, received with the kill switch disabled, for a
\* tool that is not in the allowed_tools of the agent's profile is denied with
\* a reason naming the tool, its ActionRequest is persisted with decision deny,
\* and nothing else is written or sent, whether or not the guardrails would
\* pass.
C5_ToolNotAllowedDenied ==
    \A c \in 1..Len(calls) :
        (Admitted(c)
            /\ calls[c].req.tool_name \notin ProfileOf(calls[c].agent_id).allowed_tools) =>
        LET request_id == calls[c].request_id
        IN  /\ Done(c)
            /\ calls[c].response =
                  Response(200, request_id, "denied", "deny",
                           ToolNotAllowed(calls[c].req.tool_name))
            /\ request_id # NoRequestId
            /\ Persisted(request_id)
            /\ actionRequests[request_id].decision = "deny"
            /\ actionRequests[request_id].decision_reason =
                  ToolNotAllowed(calls[c].req.tool_name)
            /\ RowsOf(guardrailEvents, request_id) = {}
            /\ RowsOf(approvals, request_id) = {}
            /\ RowsOf(executions, request_id) = {}
            /\ RowsOf(downstream, request_id) = {}

\* C5 witness: send_customer_email to a contactable customer, denied for an
\* agent of the read_only profile
C5_Witness ==
    \E c \in 1..Len(calls) :
        /\ calls[c].agent_id = "agent-reader"
        /\ calls[c].req.tool_name = "send_customer_email"
        /\ ~customers[calls[c].req.tool_args["customer_id"]]
        /\ calls[c].response.reason = ToolNotAllowed("send_customer_email")

\* the call asks to mail a customer whose do_not_contact flag is set, under a
\* profile that allows the tool
MailsDoNotContact(c) ==
    /\ Admitted(c)
    /\ calls[c].req.tool_name = "send_customer_email"
    /\ "send_customer_email" \in ProfileOf(calls[c].agent_id).allowed_tools
    /\ Has(calls[c].req.tool_args, "customer_id")
    /\ calls[c].req.tool_args["customer_id"] \in DOMAIN customers
    /\ customers[calls[c].req.tool_args["customer_id"]]

\* C6: such a call (send_customer_email to a do_not_contact customer, under any
\* profile allowing the tool) is denied with the do-not-contact reason before
\* approval is asked for; it never has an
\* Approval row, an Execution row or a downstream call, and it has one
\* GuardrailEvent, with triggered = true.
C6_DoNotContactDenied ==
    \A c \in 1..Len(calls) :
        MailsDoNotContact(c) =>
        LET request_id == calls[c].request_id
            customer_id == calls[c].req.tool_args["customer_id"]
        IN  /\ RowsOf(approvals, request_id) = {}
            /\ RowsOf(executions, request_id) = {}
            /\ RowsOf(downstream, request_id) = {}
            /\ calls[c].pc \in {"do_not_contact", "deny", "done"}
            /\ Done(c) =>
                  /\ calls[c].response =
                        Response(200, request_id, "denied", "deny", DoNotContact(customer_id))
                  /\ actionRequests[request_id].decision = "deny"
                  /\ Cardinality(RowsOf(guardrailEvents, request_id)) = 1
                  /\ \A e \in RowsOf(guardrailEvents, request_id) :
                        /\ guardrailEvents[e].triggered
                        /\ guardrailEvents[e].guardrail =
                              "block_external_email_if_customer_do_not_contact"

\* C6 witness: the call was denied under both profiles that allow the tool
C6_Witness ==
    \A a \in {"agent-support-001", "agent-ops"} :
        \E c \in 1..Len(calls) :
            /\ calls[c].agent_id = a
            /\ MailsDoNotContact(c)
            /\ Done(c)

\* the call closes an existing ticket, the write limit did not trigger for it,
\* the operator did not reject it and the ticketing API answered
ClosesTicket(c) ==
    /\ Admitted(c)
    /\ calls[c].req.tool_name = "update_ticket"
    /\ "update_ticket" \in ProfileOf(calls[c].agent_id).allowed_tools
    /\ Has(calls[c].req.tool_args, "status")
    /\ calls[c].req.tool_args["status"] = "closed"
    /\ Has(calls[c].req.tool_args, "ticket_id")
    /\ calls[c].req.tool_args["ticket_id"] \in DOMAIN tickets
    /\ \A e \in RowsOf(guardrailEvents, calls[c].request_id) : ~guardrailEvents[e].triggered
    /\ \A a \in RowsOf(approvals, calls[c].request_id) : approvals[a].status = "approved"
    /\ calls[c].error = ""

\* C9: when such a call has ended there is one ActionRequest with decision
\* allow, one Approval (approved, cli) and one Execution with a status below
\* 400, all with the call's request id.
C9_CloseTicketEndToEnd ==
    \A c \in 1..Len(calls) :
        (ClosesTicket(c) /\ Done(c)) =>
        LET request_id == calls[c].request_id
        IN  /\ Persisted(request_id)
            /\ actionRequests[request_id].decision = "allow"
            /\ Cardinality(RowsOf(approvals, request_id)) = 1
            /\ \A a \in RowsOf(approvals, request_id) :
                  approvals[a].status = "approved" /\ approvals[a].channel = "cli"
            /\ Cardinality(RowsOf(executions, request_id)) = 1
            /\ \A e \in RowsOf(executions, request_id) :
                  executions[e].downstream_status < 400

\* C10: a call naming a tool outside the endpoint map fails with 400 and no
\* ActionRequest row is persisted for it.
C10_UnknownToolInvalidInput ==
    \A c \in 1..Len(calls) :
        (Admitted(c) /\ Done(c) /\ calls[c].req.tool_name \notin KnownTools) =>
            /\ calls[c].response.http = 400
            /\ ~Persisted(calls[c].request_id)

\* the GuardrailEvent rows of the write-limit guardrail, in insertion order
IsWriteLimitEvent(e) == e.guardrail = "max_ticket_updates_per_run"
WriteLimitEvents == SelectSeq(guardrailEvents, IsWriteLimitEvent)

\* the first five calls were allowed and the sixth was denied by the write
\* limit; the guardrail's events are five not triggered, then one triggered
FiveAllowedSixthDenied ==
    /\ \A c \in 1..max_updates :
        /\ calls[c].response = Response(200, c, "executed", "allow", NoReason)
        /\ actionRequests[c].decision = "allow"
    /\ calls[max_updates + 1].response =
          Response(200, max_updates + 1, "denied", "deny", WriteLimitExceeded(max_updates))
    /\ actionRequests[max_updates + 1].decision = "deny"
    /\ RowsOf(downstream, max_updates + 1) = {}
    /\ \A e \in 1..max_updates :
        /\ WriteLimitEvents[e].request_id = e
        /\ ~WriteLimitEvents[e].triggered
    /\ WriteLimitEvents[max_updates + 1].request_id = max_updates + 1
    /\ WriteLimitEvents[max_updates + 1].triggered

\* the sixth call has ended
SixthEnded == Len(calls) > max_updates /\ Done(max_updates + 1)

\* the five earlier calls were received within the five minutes before the
\* sixth was evaluated by the guardrail
FiveWithinWindow ==
    \A c \in 1..max_updates :
        calls[c].timestamp >= WriteLimitEvents[max_updates + 1].timestamp - NoSessionWindow

\* C7 as stated: six update_ticket calls of one agent with no session id, issued
\* one after another and each otherwise allowed, end with the first five
\* allowed and the sixth denied by the write limit, whenever they are issued.
C7_SixthAlwaysDenied == SixthEnded => FiveAllowedSixthDenied

\* C7 (amended): six such calls end with the first five allowed and the sixth
\* denied by the write limit, with five GuardrailEvent rows not triggered
\* followed by one triggered, when the first five were received within the
\* five minutes before the sixth is evaluated; the first five are allowed in
\* any case.
C7_SixthDeniedWithinWindow ==
    /\ (SixthEnded /\ FiveWithinWindow) => FiveAllowedSixthDenied
    /\ \A c \in 1..Len(calls) :
        (c <= max_updates /\ Done(c)) =>
            /\ calls[c].response.decision = "allow"
            /\ ~WriteLimitEvents[c].triggered

\* C7 witness: the sixth call was denied at the last instant of the window that
\* still holds the first call
C7_Witness ==
    /\ SixthEnded
    /\ FiveWithinWindow
    /\ calls[1].timestamp = WriteLimitEvents[max_updates + 1].timestamp - NoSessionWindow
    /\ calls[max_updates + 1].response.decision = "deny"

\* the write-limit event of a call, if the guardrail has evaluated it
EvaluatedBy(c) ==
    {e \in RowsOf(guardrailEvents, calls[c].request_id) :
        IsWriteLimitEvent(guardrailEvents[e])}

\* 24 hours when a non-empty session id came with the request, 5 minutes otherwise
WindowOf(c) ==
    IF calls[c].req.session_id \in {None, ""} THEN NoSessionWindow ELSE SessionWindow

\* the rows of other requests that lie in the window which ends when the
\* guardrail evaluates call c
InWindow(c, e) ==
    {r \in DOMAIN actionRequests \ {calls[c].request_id} :
        guardrailEvents[e].timestamp - actionRequests[r].timestamp <= WindowOf(c)}

\* of those, the allowed writes of the calling agent
AllowedWritesInWindow(c, e) ==
    {r \in InWindow(c, e) :
        /\ actionRequests[r].agent_id = calls[c].agent_id
        /\ actionRequests[r].action_type = "write"
        /\ actionRequests[r].decision = "allow"}

\* C8: the write-limit guardrail denies a request exactly when the allowed
\* writes of the same agent inside the trailing window (24 hours with a session
\* id, 5 minutes without) number at least 5, whatever other rows the audit
\* store holds and whatever the session id is; the denial reports that number.
C8_VerdictIsWindowCount ==
    \A c \in 1..Len(calls) : \A e \in EvaluatedBy(c) :
        LET count == Cardinality(AllowedWritesInWindow(c, e))
        IN  /\ guardrailEvents[e].triggered <=> count >= max_updates
            /\ guardrailEvents[e].triggered =>
                  /\ calls[c].reason = WriteLimitExceeded(count)
                  /\ calls[c].pc \in {"deny", "done"}
                  /\ Done(c) => calls[c].response.decision = "deny"
            /\ ~guardrailEvents[e].triggered =>
                  /\ calls[c].pc # "deny"
                  /\ Done(c) => calls[c].response.decision = "allow"

\* C8 witness: a call with a session id was allowed with four allowed writes of
\* its agent in the window, while the store also held an older allowed write of
\* the agent and, inside the window, writes of another agent, a read, an
\* external action, a denied and a pending write
C8_Witness ==
    \E c \in 1..Len(calls) : \E e \in EvaluatedBy(c) :
        /\ calls[c].req.session_id = "s2"
        /\ Cardinality(AllowedWritesInWindow(c, e)) = max_updates - 1
        /\ Done(c)
        /\ calls[c].response.decision = "allow"
        /\ \E r \in DOMAIN actionRequests \ InWindow(c, e) :
              /\ r # calls[c].request_id
              /\ actionRequests[r].agent_id = calls[c].agent_id
              /\ actionRequests[r].action_type = "write"
              /\ actionRequests[r].decision = "allow"
        /\ \E r \in InWindow(c, e) : actionRequests[r].agent_id # calls[c].agent_id
        /\ \E r \in InWindow(c, e) : actionRequests[r].action_type = "read"
        /\ \E r \in InWindow(c, e) : actionRequests[r].action_type = "external"
        /\ \E r \in InWindow(c, e) :
              actionRequests[r].action_type = "write" /\ actionRequests[r].decision = "deny"
        /\ \E r \in InWindow(c, e) :
              actionRequests[r].action_type = "write" /\ actionRequests[r].decision = "pending"

\* the arguments lack the id that the endpoint's path needs
LacksPathId(c) ==
    \/ calls[c].req.tool_name = "update_ticket" /\ ~Has(calls[c].req.tool_args, "ticket_id")
    \/ calls[c].req.tool_name = "send_customer_email"
          /\ ~Has(calls[c].req.tool_args, "customer_id")

\* the call has been through the try block of the downstream call
ReachedDispatch(c) ==
    \/ calls[c].pc = "record"
    \/ Done(c) /\ (calls[c].error # "" \/ calls[c].status_code # 0)

\* the downstream call failed at transport level
TransportFailed(c) == calls[c].error \in {"ConnectError", "ReadTimeout"}

\* C11: an update_ticket request without ticket_id, or a send_customer_email
\* request without customer_id, that reaches the dispatch stage ends with HTTP
\* 400 returned to the caller.
C11_MissingIdInvalidInput ==
    \A c \in 1..Len(calls) :
        (LacksPathId(c) /\ ReachedDispatch(c) /\ Done(c)) =>
            calls[c].response = HttpError(400)

\* C12: a request that reached the downstream-call stage has exactly one
\* Execution row once its processing has finished, whatever the outcome of the
\* call; a request that has not reached that stage, or was denied before it
\* (permission, guardrail, kill switch, approval rejection), has none.
C12_OneExecutionPerDispatch ==
    \A c \in 1..Len(calls) :
        LET rows == RowsOf(executions, calls[c].request_id)
        IN  /\ (Done(c) /\ ReachedDispatch(c)) => Cardinality(rows) = 1
            /\ (~Done(c) \/ ~ReachedDispatch(c)) => rows = {}
            /\ calls[c].request_id = NoRequestId => rows = {}

\* C12 witness: one request was rejected by the operator and has no Execution
\* row, another failed at transport level and has one
C12_Witness ==
    \E c, d \in 1..Len(calls) :
        /\ Done(c) /\ Done(d)
        /\ calls[c].response.reason = ApprovalRejected
        /\ RowsOf(executions, calls[c].request_id) = {}
        /\ TransportFailed(d)
        /\ Cardinality(RowsOf(executions, calls[d].request_id)) = 1

\* C13: when the downstream call fails at transport level, one Execution row
\* with status 500 and the error text is persisted, the ActionRequest's
\* decision is deny with the execution-error reason, and the /action call ends
\* as HTTP 500, not as a structured response.
C13_TransportFailureIsHttp500 ==
    \A c \in 1..Len(calls) :
        (Done(c) /\ TransportFailed(c)) =>
            LET request_id == calls[c].request_id
            IN  /\ \A e \in RowsOf(executions, request_id) :
                      executions[e] = Execution(request_id, 500, calls[c].error)
                /\ RowsOf(executions, request_id) # {}
                /\ actionRequests[request_id].decision = "deny"
                /\ actionRequests[request_id].decision_reason = ExecutionError(500)
                /\ calls[c].response = HttpError(500)

\* C13 witness: one call could not connect, another timed out after the
\* ticketing API had applied the update
C13_Witness ==
    \E c, d \in 1..Len(calls) :
        /\ Done(c) /\ calls[c].error = "ConnectError"
        /\ Done(d) /\ calls[d].error = "ReadTimeout"
        /\ RowsOf(downstream, calls[d].request_id) # {}

\* the call got a downstream status back
RoundTripCompleted(c) == Done(c) /\ calls[c].error = "" /\ calls[c].status_code # 0

\* C14: after a completed downstream round trip the stored decision is allow
\* exactly when the downstream status is below 400; whenever /action returned a
\* structured response with a request id, its decision is the decision stored
\* in the ActionRequest of that id, executed going with allow and denied or
\* error with deny.
C14_ResponseMatchesStoredDecision ==
    \A c \in 1..Len(calls) :
        LET request_id == calls[c].request_id
            response == calls[c].response
        IN  /\ RoundTripCompleted(c) =>
                  (actionRequests[request_id].decision = "allow"
                      <=> calls[c].status_code < 400)
            /\ RoundTripCompleted(c) =>
                  actionRequests[request_id].decision \in {"allow", "deny"}
            /\ (Done(c) /\ response.http = 200 /\ response.request_id # NoRequestId) =>
                  /\ Persisted(response.request_id)
                  /\ actionRequests[response.request_id].decision = response.decision
                  /\ response.status = "executed" <=> response.decision = "allow"
                  /\ response.status \in {"denied", "error"} <=> response.decision = "deny"

\* C14 witness: one call was executed, another got 404 from the ticketing API
C14_Witness ==
    \E c, d \in 1..Len(calls) :
        /\ RoundTripCompleted(c) /\ calls[c].response.status = "executed"
        /\ RoundTripCompleted(d) /\ calls[d].status_code = 404
        /\ calls[d].response.status = "error"

\* C15: once the decision of an ActionRequest row is allow or deny it never
\* changes again.
C15_DecisionsAreTerminal ==
    [][\A r \in DOMAIN actionRequests :
          actionRequests[r].decision \in {"allow", "deny"} =>
              actionRequests'[r].decision = actionRequests[r].decision]_vars

\* the request got as far as the classification (it has a request id)
Classified(c) == calls[c].request_id # NoRequestId

\* the status argument of a request, None when there is none
StatusArg(c) ==
    IF Has(calls[c].req.tool_args, "status") THEN calls[c].req.tool_args["status"] ELSE None

\* C16: list_tickets is (read, low), send_customer_email is (external, high),
\* update_ticket and every unrecognized tool name is write, with risk high when
\* the status argument is closed or deleted, else medium in prod and low in any
\* other env; nothing else of the request enters the result.
C16_ClassificationTable ==
    \A c \in 1..Len(calls) :
        Classified(c) =>
            LET tool == calls[c].req.tool_name
                class == <<calls[c].action_type, calls[c].risk_level>>
            IN  /\ tool = "list_tickets" => class = <<"read", "low">>
                /\ tool = "send_customer_email" => class = <<"external", "high">>
                /\ tool \notin {"list_tickets", "send_customer_email"} =>
                      /\ StatusArg(c) \in {"closed", "deleted"} => class = <<"write", "high">>
                      /\ (StatusArg(c) \notin {"closed", "deleted"}
                            /\ calls[c].req.env = "prod") => class = <<"write", "medium">>
                      /\ (StatusArg(c) \notin {"closed", "deleted"}
                            /\ calls[c].req.env # "prod") => class = <<"write", "low">>
                /\ Persisted(calls[c].request_id) =>
                      /\ actionRequests[calls[c].request_id].action_type = class[1]
                      /\ actionRequests[calls[c].request_id].risk_level = class[2]

\* C16 witness: an unrecognized tool with status deleted, sent for env dev with
\* a ticket id, is a write of high risk
C16_Witness ==
    \E c \in 1..Len(calls) :
        /\ calls[c].req.tool_name = "delete_ticket"
        /\ calls[c].req.env = "dev"
        /\ StatusArg(c) = "deleted"
        /\ calls[c].action_type = "write"
        /\ calls[c].risk_level = "high"
        /\ Persisted(calls[c].request_id)

\* the request passed the permission check and both guardrails, and its
\* ActionRequest row is persisted
PassedChecks(c) ==
    /\ Classified(c)
    /\ Persisted(calls[c].request_id)
    /\ actionRequests[calls[c].request_id].decision_reason.kind \notin
          {ToolNotAllowed("").kind, FieldsNotAllowed({}).kind,
           WriteLimitExceeded(0).kind, DoNotContact(0).kind}

\* C17: requires_approval is true for high risk in any env, for medium risk
\* only in prod, and never for low risk; the approval_required flag persisted
\* for a request that passed the permission and guardrail checks is that value.
C17_ApprovalRequiredFlag ==
    /\ \A a \in {"read", "write", "external"}, e \in {"prod", "dev", "staging"} :
        /\ requires_approval(a, "high", e)
        /\ requires_approval(a, "medium", e) <=> e = "prod"
        /\ ~requires_approval(a, "low", e)
    /\ \A c \in 1..Len(calls) :
        PassedChecks(c) =>
            LET row == actionRequests[calls[c].request_id]
            IN  /\ row.risk_level = "high" => row.approval_required
                /\ row.risk_level = "medium" => (row.approval_required <=> row.env = "prod")
                /\ row.risk_level = "low" => ~row.approval_required
                /\ row.approval_required =>
                      \/ calls[c].pc \in {"approval", "approval_decision"}
                      \/ RowsOf(approvals, row.request_id) # {}
                /\ ~row.approval_required => RowsOf(approvals, row.request_id) = {}

\* C17 witness: a request of high risk for env dev was persisted with
\* approval_required and has been approved
C17_Witness ==
    \E c \in 1..Len(calls) :
        /\ PassedChecks(c)
        /\ calls[c].req.env = "dev"
        /\ calls[c].risk_level = "high"
        /\ actionRequests[calls[c].request_id].approval_required
        /\ \E a \in RowsOf(approvals, calls[c].request_id) : approvals[a].status = "approved"

\* C18: for update_ticket under a profile with a non-empty field-restriction
\* list, the permission check allows the call exactly when every key of the
\* arguments, ticket_id included, is in the list, and otherwise denies it with
\* a reason naming the keys that are not; for other tools and for profiles
\* without such a list the keys are not checked.
C18_FieldRestriction ==
    \A c \in 1..Len(calls) :
        (Admitted(c) /\ calls[c].req.tool_name \in ProfileOf(calls[c].agent_id).allowed_tools) =>
            LET fields == ProfileOf(calls[c].agent_id).field_restrictions
                disallowed == DOMAIN calls[c].req.tool_args \ fields
                request_id == calls[c].request_id
            IN  IF calls[c].req.tool_name = "update_ticket" /\ fields # {} /\ disallowed # {}
                THEN /\ Done(c)
                     /\ calls[c].response =
                           Response(200, request_id, "denied", "deny",
                                    FieldsNotAllowed(disallowed))
                     /\ actionRequests[request_id].decision_reason =
                           FieldsNotAllowed(disallowed)
                ELSE /\ calls[c].response.reason.kind # FieldsNotAllowed({}).kind
                     /\ Persisted(request_id) =>
                           actionRequests[request_id].decision_reason.kind
                               # FieldsNotAllowed({}).kind
                     /\ Done(c) => Persisted(request_id)

\* C18 witness: under the seeded profile an update_ticket call that carries
\* ticket_id and title is denied, the reason naming both keys
C18_Witness ==
    \E c \in 1..Len(calls) :
        /\ calls[c].agent_id = "agent-support-001"
        /\ calls[c].req.tool_name = "update_ticket"
        /\ calls[c].response.reason = FieldsNotAllowed({"ticket_id", "title"})

\* what PATCH /tickets/{id} with a body must make of a ticket at an instant
Patched(ticket, ticket_update, utcnow) ==
    [status |-> IF Has(ticket_update, "status")
                THEN ticket_update["status"] ELSE ticket.status,
     title |-> IF Has(ticket_update, "title")
               THEN ticket_update["title"] ELSE ticket.title,
     description |-> IF Has(ticket_update, "description")
                     THEN ticket_update["description"] ELSE ticket.description,
     resolved_at |-> IF Has(ticket_update, "status")
                        /\ ticket_update["status"] \in {"resolved", "closed"}
                     THEN utcnow ELSE ticket.resolved_at,
     customer_id |-> ticket.customer_id]

\* the frame of one PATCH on the present store
PatchFrame(ticket_id, ticket_update) ==
    LET patch == update_ticket(tickets, ticket_id, ticket_update, now)
    IN  IF ticket_id \notin DOMAIN tickets
        THEN patch.status_code = 404 /\ patch.tickets = tickets
        ELSE /\ patch.status_code = 200
             /\ DOMAIN patch.tickets = DOMAIN tickets
             /\ \A t \in DOMAIN tickets \ {ticket_id} : patch.tickets[t] = tickets[t]
             /\ patch.tickets[ticket_id] = Patched(tickets[ticket_id], ticket_update, now)
             /\ (Has(ticket_update, "status")
                    /\ ticket_update["status"] \in {"resolved", "closed"}) =>
                   patch.tickets[ticket_id].resolved_at # NoTime

\* C19: PATCH /tickets/{id} changes only the supplied fields of that ticket;
\* status resolved or closed sets a resolved time, any other status leaves the
\* resolved time as it was, title and description keep their values when not
\* supplied; a PATCH on an id the store does not hold gives 404 and changes
\* nothing; hence no PATCH on a reachable store makes a resolved time that is
\* set absent again.
C19_PatchFrame ==
    \A ticket_id \in PatchIds, ticket_update \in TicketUpdates :
        /\ PatchFrame(ticket_id, ticket_update)
        /\ \A t \in DOMAIN tickets :
              tickets[t].resolved_at # NoTime =>
                  update_ticket(tickets, ticket_id, ticket_update, now)
                      .tickets[t].resolved_at # NoTime

\* C19 witness: ticket 1, resolved at seeding, was reopened with a new title and
\* still has its resolved time; ticket 7 was closed later and has one
C19_Witness ==
    /\ tickets[1].status = "in_progress"
    /\ tickets[1].title = "Refund"
    /\ tickets[1].description = SeededTickets[1].description
    /\ tickets[1].resolved_at = 0
    /\ tickets[7].status = "closed"
    /\ tickets[7].resolved_at > 0

\* C20: in every state of the ticketing store reachable by PATCH calls, every
\* ticket's status is one of open, in_progress, resolved, closed.
C20_StatusDomain ==
    \A t \in DOMAIN tickets :
        tickets[t].status \in {"open", "in_progress", "resolved", "closed"}

(* C30: in every reachable state of the Manager store each GuardrailEvent,
   Approval and Execution row carries a request id for which an
   ActionRequest row is already persisted. *)
C30_RowsReferencePersistedRequest ==
    /\ \A i \in DOMAIN guardrailEvents : Persisted(guardrailEvents[i].request_id)
    /\ \A i \in DOMAIN approvals : Persisted(approvals[i].request_id)
    /\ \A i \in DOMAIN executions : Persisted(executions[i].request_id)

(***************************************************************************)
(* GET /audit/timeline (src/npc_manager/main.py)                           *)
(***************************************************************************)
MaxLimit == 3

\* the rows of a related table that req.approvals, req.executions and
\* req.guardrail_events load: those whose foreign key is the request's id
Related(table, request_id) ==
    SelectSeq(table, LAMBDA row : row.request_id = request_id)

MapSeq(F(_), s) == [i \in 1..Len(s) |-> F(s[i])]

ApprovalEntry(a) == [status |-> a.status, approver |-> a.approver, channel |-> a.channel]
ExecutionEntry(e) == [status |-> e.downstream_status, error |-> e.error]
GuardrailEntry(g) == [guardrail |-> g.guardrail, triggered |-> g.triggered]

TimelineEntry(req) ==
    [request_id |-> req.request_id,
     agent_id |-> req.agent_id,
     timestamp |-> req.timestamp,
     action_type |-> req.action_type,
     risk_level |-> req.risk_level,
     approval_required |-> req.approval_required,
     decision |-> req.decision,
     decision_reason |-> req.decision_reason,
     approvals |-> MapSeq(ApprovalEntry, Related(approvals, req.request_id)),
     executions |-> MapSeq(ExecutionEntry, Related(executions, req.request_id)),
     guardrail_events |-> MapSeq(GuardrailEntry,
                                 Related(guardrailEvents, req.request_id))]

\* ORDER BY timestamp DESC: rows with equal timestamps come in any order
NewestFirst(ids) ==
    {order \in [1..Cardinality(ids) -> ids] :
        /\ \A i, j \in DOMAIN order : i # j => order[i] # order[j]
        /\ \A i, j \in DOMAIN order :
              i < j => actionRequests[order[i]].timestamp
                          >= actionRequests[order[j]].timestamp}

FirstRows(order, limit) ==
    SubSeq(order, 1, IF limit < Len(order) THEN limit ELSE Len(order))

\* the agent filter is dropped
get_audit_timelineEveryAgent(agent_id, limit) ==
    {MapSeq(LAMBDA r : TimelineEntry(actionRequests[r]), FirstRows(order, limit)) :
        order \in NewestFirst(DOMAIN actionRequests)}

\* the timelines the endpoint can return for a query
get_audit_timeline(agent_id, limit) ==
    LET ids == {r \in DOMAIN actionRequests :
                    TruthyStr(agent_id) => actionRequests[r].agent_id = agent_id}
    IN  {MapSeq(LAMBDA r : TimelineEntry(actionRequests[r]), FirstRows(order, limit)) :
            order \in NewestFirst(ids)}

TimelineAgents == {None, "", "agent-ops", "agent-ghost"}
Limits == {0, 1, MaxLimit}

AuditRequests ==
    {Request("agent-ops", None, None, "update_ticket", CloseTicket(7), "prod"),
     Request("agent-support-001", None, None, "send_customer_email", Email(1), "prod"),
     Request("agent-support-001", None, None, "send_customer_email", Email(2), "prod")}

NextAudit ==
    \/ \E req \in AuditRequests :
          Len(calls) < MaxCalls /\ InFlight = {} /\ ReceiveAction(req)
    \/ Guardrails
    \/ \E c \in 1..Len(calls), line \in {"y", "No"} : AnswerPrompt(c, line)
    \/ \E c \in 1..Len(calls), net \in {"answered", "timeout"} : Dispatch(c, net)
    \/ InFlight = {} /\ Tick

SpecAudit == Init /\ [][NextAudit]_vars

RowsFor(agent_id) ==
    {r \in DOMAIN actionRequests : actionRequests[r].agent_id = agent_id}

Returned(timeline) == {timeline[i].request_id : i \in DOMAIN timeline}

(* C28: GET /audit/timeline returns at most limit ActionRequest rows, most
   recent first, only the given agent's rows when agent_id is supplied,
   and every returned entry carries exactly the Approval, Execution and
   GuardrailEvent rows whose request id is the entry's request id. *)
C28_AuditTimeline ==
    \A agent_id \in TimelineAgents, limit \in Limits :
        LET candidates == IF TruthyStr(agent_id) THEN RowsFor(agent_id)
                          ELSE DOMAIN actionRequests
            timelines == get_audit_timeline(agent_id, limit)
        IN  /\ timelines # {}
            /\ \A timeline \in timelines :
                  /\ Len(timeline) <= limit
                  /\ Len(timeline) = limit \/ Returned(timeline) = candidates
                  /\ Cardinality(Returned(timeline)) = Len(timeline)
                  /\ Returned(timeline) \subseteq candidates
                  /\ \A i, j \in DOMAIN timeline :
                        i < j => timeline[i].timestamp >= timeline[j].timestamp
                  /\ \A r \in candidates \ Returned(timeline), i \in DOMAIN timeline :
                        actionRequests[r].timestamp <= timeline[i].timestamp
                  /\ \A i \in DOMAIN timeline :
                        LET e == timeline[i]
                            row == actionRequests[e.request_id]
                        IN  /\ e.agent_id = row.agent_id
                            /\ e.decision = row.decision
                            /\ e.timestamp = row.timestamp
                            /\ Len(e.approvals) =
                                  Cardinality(RowsOf(approvals, e.request_id))
                            /\ Len(e.executions) =
                                  Cardinality(RowsOf(executions, e.request_id))
                            /\ Len(e.guardrail_events) =
                                  Cardinality(RowsOf(guardrailEvents, e.request_id))
                            /\ \A k \in DOMAIN e.approvals : \E n \in RowsOf(approvals, e.request_id) :
                                  e.approvals[k] = ApprovalEntry(approvals[n])
                            /\ \A k \in DOMAIN e.executions : \E n \in RowsOf(executions, e.request_id) :
                                  e.executions[k] = ExecutionEntry(executions[n])
                            /\ \A k \in DOMAIN e.guardrail_events :
                                  \E n \in RowsOf(guardrailEvents, e.request_id) :
                                      e.guardrail_events[k] = GuardrailEntry(guardrailEvents[n])

\* two agents' requests with different timestamps are stored, one of them
\* approved and executed, and a query for one agent with limit 1 has an answer
C28_Witness ==
    /\ \E r1 \in RowsFor("agent-ops"), r2 \in RowsFor("agent-support-001") :
          /\ actionRequests[r1].timestamp # actionRequests[r2].timestamp
          /\ RowsOf(executions, r1) # {}
          /\ RowsOf(guardrailEvents, r2) # {}
    /\ \E r \in DOMAIN actionRequests : RowsOf(approvals, r) # {}
    /\ \E timeline \in get_audit_timeline("agent-ops", 1) : Len(timeline) = 1
    /\ InFlight = {}

(***************************************************************************)
(* hash_payload (src/npc_manager/controls.py)                              *)
(***************************************************************************)
MaxKeys == 2

\* the keys a tool_args dict can carry, in the order Python sorts strings
KeyOrder == <<"body", "customer_id", "status", "ticket_id">>
KeyRank(k) == CHOOSE n \in DOMAIN KeyOrder : KeyOrder[n] = k
ArgValues == {1, 2}

\* a dict is a sequence of <<key, value>> pairs with distinct keys: Python
\* keeps the insertion order, which is the order of the JSON body
IsDict(p) == \A i, j \in DOMAIN p : i # j => p[i][1] # p[j][1]
Payloads ==
    {p \in UNION {[1..n -> {<<KeyOrder[k], v>> : k \in DOMAIN KeyOrder, v \in ArgValues}] :
                    n \in 0..MaxKeys} : IsDict(p)}

\* json.dumps: the text lists the pairs in dict order, or by key when
\* sort_keys is set; the text is modelled by the sequence of pairs it spells
json_dumps(p, sort_keys) ==
    IF sort_keys
    THEN [n \in 1..Len(p) |->
            CHOOSE pair \in {p[i] : i \in DOMAIN p} :
                Cardinality({i \in DOMAIN p : KeyRank(p[i][1]) < KeyRank(pair[1])}) = n - 1]
    ELSE p

\* hashlib.sha256(...).hexdigest(): a function of the text, taken as injective
sha256(text) == <<"sha256", text>>

\* the keys are left in dict order
hash_payloadInsertionOrder(p) == sha256(json_dumps(p, FALSE))

hash_payload(p) == sha256(json_dumps(p, TRUE))

InitHash ==
    /\ InitServices
    /\ InitAgent
    /\ InitScope
    /\ InitDemo
    /\ InitConsole
    /\ InitAct4
    /\ payload \in Payloads
    /\ payload_hash = NoHash

\* execute_action hashes the request's tool_args
HashPayload ==
    /\ payload_hash = NoHash
    /\ payload_hash' = hash_payload(payload)
    /\ UNCHANGED <<payload, agentProcess, serviceManager, demo, console, act4>>
    /\ UNCHANGED <<services, fixtures>>

NextHash == HashPayload

SpecHash == InitHash /\ [][NextHash]_vars

\* the same key/value pairs, in any order
SamePairs(p, q) == {p[i] : i \in DOMAIN p} = {q[i] : i \in DOMAIN q}

(* C29: payload hashing does not depend on the order of the map's keys: two
   payloads with the same key/value pairs in different key order have the
   same hash. *)
C29_HashIgnoresKeyOrder ==
    payload_hash # NoHash =>
        \A q \in Payloads : SamePairs(payload, q) => hash_payload(q) = payload_hash

\* a two-key payload has been hashed, and its keys were not in sorted order
C29_Witness ==
    /\ payload_hash # NoHash
    /\ Len(payload) = 2
    /\ KeyRank(payload[1][1]) > KeyRank(payload[2][1])

(***************************************************************************)
(* GET /tickets (src/ticketing_api/main.py)                                *)
(***************************************************************************)
\* the query string: each parameter is optional; ?status= gives "" and
\* ?customer_id=0 gives 0, which `if status:' and `if customer_id:' skip
\* just as they skip an absent parameter
Queries ==
    {s @@ c : s \in {NoArgs} \cup {"status" :> v :
                        v \in {"", "open", "resolved", "closed", "archived"}},
              c \in {NoArgs} \cup {"customer_id" :> n : n \in 0..3}}

FiltersStatus(query) == Has(query, "status") /\ query["status"] # ""
FiltersCustomer(query) == TruthyArg(query, "customer_id")

\* either filter alone is enough for a row to be returned
list_ticketsEitherFilter(tix, query) ==
    {id \in DOMAIN tix :
        \/ ~FiltersStatus(query) /\ ~FiltersCustomer(query)
        \/ FiltersStatus(query) /\ tix[id].status = query["status"]
        \/ FiltersCustomer(query) /\ tix[id].customer_id = query["customer_id"]}

\* the ids of the rows the listing returns
list_tickets(tix, query) ==
    LET by_status == IF FiltersStatus(query)
                     THEN {id \in DOMAIN tix : tix[id].status = query["status"]}
                     ELSE DOMAIN tix
    IN  IF FiltersCustomer(query)
        THEN {id \in by_status : tix[id].customer_id = query["customer_id"]}
        ELSE by_status

(* C21: GET /tickets returns exactly the tickets that match every supplied
   filter: status and customer_id are ANDed and a filter that is absent (or
   blank, or zero) restricts nothing; against freshly seeded data no filter
   yields 12 tickets and customer_id = 2 yields 2. *)
C21_ListTickets ==
    /\ \A query \in Queries, id \in 1..13 :
          id \in list_tickets(tickets, query) <=>
              /\ id \in DOMAIN tickets
              /\ FiltersStatus(query) => tickets[id].status = query["status"]
              /\ FiltersCustomer(query) =>
                    tickets[id].customer_id = query["customer_id"]
    /\ (\E t \in Instants : tickets = SeededTicketsAt(t)) =>
          /\ Cardinality(list_tickets(tickets, NoArgs)) = 12
          /\ Cardinality(list_tickets(tickets, "customer_id" :> 2)) = 2

\* ticket 7 has been closed: the two filters together select it alone, and
\* the same status with the other customer selects nothing
C21_Witness ==
    /\ list_tickets(tickets, ("status" :> "closed") @@ ("customer_id" :> 1)) = {7}
    /\ list_tickets(tickets, ("status" :> "closed") @@ ("customer_id" :> 2)) = {}
    /\ Cardinality(list_tickets(tickets, "status" :> "open")) = 5
    /\ Cardinality(list_tickets(tickets, "customer_id" :> 1)) = 10

(***************************************************************************)
(* Seeding (src/scripts/setup_db.py)                                       *)
(***************************************************************************)
MaxSeedRuns == 2

SeededProfiles ==
    [p \in {"read_only", "write_nonprod", "write_prod_with_approval"} |->
        PermissionProfiles[p]]

SeededAgents ==
    "agent-support-001" :>
        [status |-> "active", permission_profile_id |-> "write_prod_with_approval"]

\* db.query(T).delete(): no row is left
Delete(table) == [id \in {} |-> table[id]]
\* db.add of rows with explicit primary keys
Add(table, rows) == rows @@ table

\* the rows of a table as a sequence are deleted the same way
DeleteAll(rows) == << >>

\* the tables are not cleared before the rows are added
setup_ticketing_dbKeepsRows ==
    /\ setup.pc \in {"idle", "done"}
    /\ setup.runs < MaxSeedRuns
    /\ customers' = Add(customers, Customers)
    /\ tickets' = Add(tickets, SeededTicketsAt(now))
    /\ setup' = [setup EXCEPT !.pc = "ticketing_done"]
    /\ UNCHANGED <<now, killSwitch, calls, actionRequests, approvals, executions,
                   guardrailEvents, downstream>>
    /\ UNCHANGED <<agents, permissionProfiles, controlIds, outside>>

setup_ticketing_db ==
    /\ setup.pc \in {"idle", "done"}
    /\ setup.runs < MaxSeedRuns
    /\ customers' = Add(Delete(customers), Customers)
    /\ tickets' = Add(Delete(tickets), SeededTicketsAt(now))
    /\ setup' = [setup EXCEPT !.pc = "ticketing_done"]
    /\ UNCHANGED <<now, killSwitch, calls, actionRequests, approvals, executions,
                   guardrailEvents, downstream>>
    /\ UNCHANGED <<agents, permissionProfiles, controlIds, outside>>

setup_npc_manager_db ==
    /\ setup.pc = "ticketing_done"
    /\ executions' = DeleteAll(executions)
    /\ approvals' = DeleteAll(approvals)
    /\ guardrailEvents' = DeleteAll(guardrailEvents)
    /\ actionRequests' = Delete(actionRequests)
    /\ permissionProfiles' = Add(Delete(permissionProfiles), SeededProfiles)
    /\ agents' = Add(Delete(agents), SeededAgents)
    /\ controlIds' = {1}
    /\ killSwitch' = FALSE
    /\ setup' = [pc |-> "done", runs |-> setup.runs + 1]
    /\ UNCHANGED <<now, calls, downstream, tickets, customers, outside>>

\* the states the two stores may be in before the script runs
PriorTickets ==
    {NoArgs, SeededTickets,
     update_ticket(SeededTickets, 7, CloseTicket(7), 0).tickets,
     (13 :> [status |-> "open", resolved_at |-> NoTime, title |-> "Refund",
             description |-> "Paid", customer_id |-> 3]) @@ SeededTickets}
PriorCustomers == {NoArgs, Customers, (1 :> TRUE) @@ (2 :> FALSE) @@ (3 :> FALSE)}
PriorAgents ==
    {NoArgs, Agents,
     "agent-support-001" :> [status |-> "paused", permission_profile_id |-> "read_only"]}
PriorProfiles == {NoArgs, PermissionProfiles}
PriorControls == {<<{}, FALSE>>, <<{1}, TRUE>>, <<{1, 2}, FALSE>>}
PriorAudit ==
    {[requests |-> NoArgs, approvals |-> << >>, executions |-> << >>,
      guardrail_events |-> << >>],
     [requests |-> 1 :> [request_id |-> 1, agent_id |-> "agent-support-001",
                         timestamp |-> 0, env |-> "prod", action_type |-> "write",
                         operation |-> "PATCH", risk_level |-> "high",
                         approval_required |-> TRUE, decision |-> "allow",
                         decision_reason |-> ExecutedSuccessfully],
      approvals |-> <<Approval(1, TRUE)>>,
      executions |-> <<Execution(1, 200, "")>>,
      guardrail_events |->
          create_guardrail_event(<< >>, 1, "max_ticket_updates_per_run", FALSE, 0)]}

InitSeed ==
    /\ InitOutside
    /\ now = 0
    /\ calls = << >>
    /\ downstream = << >>
    /\ setup = [pc |-> "idle", runs |-> 0]
    /\ tickets \in PriorTickets
    /\ customers \in PriorCustomers
    /\ agents \in PriorAgents
    /\ permissionProfiles \in PriorProfiles
    /\ \E control \in PriorControls :
          controlIds = control[1] /\ killSwitch = control[2]
    /\ \E audit \in PriorAudit :
          /\ actionRequests = audit.requests
          /\ approvals = audit.approvals
          /\ executions = audit.executions
          /\ guardrailEvents = audit.guardrail_events

NextSeed ==
    \/ setup_ticketing_db
    \/ setup_npc_manager_db
    \/ Tick

SpecSeed == InitSeed /\ [][NextSeed]_vars

(* C22: seeding is idempotent: run from any prior state of the two stores,
   any number of times, it ends in the same state: customers 1
   (do_not_contact false) and 2 (true), 12 tickets of which the 6 resolved
   ones have a resolved time, 3 permission profiles, the one active agent
   agent-support-001 bound to write_prod_with_approval, one ManagerControl
   row with the kill switch off, and no ActionRequest, Approval, Execution
   or GuardrailEvent row. *)
C22_SeedingIdempotent ==
    setup.pc = "done" =>
        /\ DOMAIN customers = {1, 2} /\ ~customers[1] /\ customers[2]
        /\ Cardinality(DOMAIN tickets) = 12
        /\ Cardinality({id \in DOMAIN tickets : tickets[id].status = "resolved"}) = 6
        /\ \A id \in DOMAIN tickets :
              tickets[id].status = "resolved" <=> tickets[id].resolved_at # NoTime
        /\ \E t \in Instants : t <= now /\ tickets = SeededTicketsAt(t)
        /\ Cardinality(DOMAIN permissionProfiles) = 3
        /\ permissionProfiles = SeededProfiles
        /\ DOMAIN agents = {"agent-support-001"}
        /\ agents["agent-support-001"] =
              [status |-> "active", permission_profile_id |-> "write_prod_with_approval"]
        /\ Cardinality(controlIds) = 1
        /\ ~killSwitch
        /\ DOMAIN actionRequests = {}
        /\ approvals = << >> /\ executions = << >> /\ guardrailEvents = << >>

\* the script has completed a second run, later than the first
C22_Witness ==
    /\ setup.pc = "done"
    /\ setup.runs >= 2
    /\ now > 0
    /\ tickets = SeededTicketsAt(now)

(***************************************************************************)
(* The agent process: run_agent (src/agent/agent.py) and the tool adapters *)
(* it drives (src/agent/tools.py)                                          *)
(***************************************************************************)
MaxToolCalls == 2

getenv(env, name) == IF name \in DOMAIN env THEN env[name] ELSE None
setenv(env, name, value) == (name :> value) @@ env
popenv(env, name) == [n \in DOMAIN env \ {name} |-> env[n]]

\* a JSON value as the adapter looks at it: its type and its length
Json(type, len) == [type |-> type, len |-> len]
JsonNull == Json("null", 0)
TruthyJson(v) == v.type # "null" /\ v.len > 0

\* what the POST to /action gives back: an exception of the HTTP client, or
\* a response with a status and a body
Raised(error) ==
    [kind |-> "exception", error |-> error, status_code |-> 0, json |-> "none",
     decision |-> None, result |-> JsonNull, reason |-> None]
Answered(status_code, json, decision, result, reason) ==
    [kind |-> "response", error |-> None, status_code |-> status_code, json |-> json,
     decision |-> decision, result |-> result, reason |-> reason]

ProxyOutcomes ==
    {Raised(e) : e \in {"ConnectError", "ReadTimeout"}}
    \cup {Answered(200, "object", "allow", r, None) :
            r \in {Json("list", 0), Json("list", 2), Json("dict", 5), JsonNull}}
    \cup {Answered(200, "object", "deny", JsonNull, reason) :
            reason \in {"Kill switch enabled", None}}
    \cup {Answered(200, "object", "deny", Json("dict", 1), "Downstream API returned 404"),
          Answered(200, "invalid", None, JsonNull, None),
          Answered(200, "array", None, JsonNull, None),
          Answered(403, "object", None, JsonNull, None),
          Answered(500, "object", None, JsonNull, None)}

\* the text an adapter returns
Text(kind, num, detail) == [kind |-> kind, num |-> num, detail |-> detail]
TextKinds == {"found", "raw_result", "updated", "sent", "denied", "error_status",
              "error_calling"}

\* the tool_args each adapter builds from its arguments
ToolArgs(tool_name, args) ==
    CASE tool_name = "list_tickets" ->
            [k \in {k \in {"status"} : Has(args, "status") /\ TruthyStr(args["status"])}
                   \cup {k \in {"customer_id"} : TruthyArg(args, "customer_id")} |->
                args[k]]
      [] tool_name = "update_ticket" ->
            [k \in {"ticket_id"}
                   \cup {k \in {"status"} : Has(args, "status") /\ TruthyStr(args["status"])} |->
                args[k]]
      [] OTHER -> [k \in {"customer_id", "subject", "body"} |-> args[k]]

\* the body of the try block: the text returned, or the exception raised
TryPost(tool_name, args, outcome) ==
    IF outcome.kind = "exception"
    THEN [raised |-> TRUE, text |-> Text("exception", 0, outcome.error)]
    ELSE IF outcome.status_code # 200
    THEN [raised |-> FALSE, text |-> Text("error_status", outcome.status_code, "")]
    ELSE IF outcome.json = "invalid"
    THEN [raised |-> TRUE, text |-> Text("exception", 0, "JSONDecodeError")]
    ELSE IF outcome.json = "array"
    THEN [raised |-> TRUE, text |-> Text("exception", 0, "AttributeError")]
    ELSE IF outcome.decision = "allow" /\ TruthyJson(outcome.result)
    THEN [raised |-> FALSE,
          text |-> CASE tool_name = "list_tickets" ->
                        IF outcome.result.type = "list"
                        THEN Text("found", outcome.result.len, "")
                        ELSE Text("raw_result", 0, "")
                     [] tool_name = "update_ticket" ->
                        Text("updated", args["ticket_id"], "")
                     [] OTHER -> Text("sent", 0, "")]
    ELSE [raised |-> FALSE, text |-> Text("denied", 0, outcome.reason)]

\* without the except clause the exception leaves the adapter
ToolRunUnguarded(tool_name, args, outcome) == TryPost(tool_name, args, outcome)

\* _run of the three adapters: `except Exception' turns what the try block
\* raises into a text
ToolRun(tool_name, args, outcome) ==
    LET try == TryPost(tool_name, args, outcome)
    IN  IF try.raised
        THEN [raised |-> FALSE, text |-> Text("error_calling", 0, try.text.detail)]
        ELSE try

\* what the actor asks of the tools
ToolInputs ==
    {[tool_name |-> "list_tickets", args |-> NoArgs],
     [tool_name |-> "list_tickets", args |-> ("status" :> "closed") @@ ("customer_id" :> 0)],
     [tool_name |-> "update_ticket", args |-> CloseTicket(7)],
     [tool_name |-> "send_customer_email", args |-> Email(1)]}

\* the session_id argument of run_agent: None has one generated
RunSessionIds == {None, "s1"}
uuid4 == "uuid-1"

\* the process starts with the API key set, unset or blank
InitAgentRun ==
    /\ InitServices
    /\ InitHashing
    /\ InitScope
    /\ InitDemo
    /\ InitConsole
    /\ InitAct4
    /\ environ \in {"OPENAI_API_KEY" :> "sk-test", NoArgs, "OPENAI_API_KEY" :> ""}
    /\ run = [pc |-> "idle", session_id |-> None]
    /\ toolCalls = << >>

\* run_agent up to agent.invoke: the session id is published, then
\* create_agent raises ValueError when the API key is missing
StartRun(session_id) ==
    /\ run.pc = "idle"
    /\ LET sid == IF session_id = None THEN uuid4 ELSE session_id
           api_key == getenv(environ, "OPENAI_API_KEY")
       IN  /\ environ' = setenv(environ, "AGENT_SESSION_ID", sid)
           /\ run' = [pc |-> IF TruthyStr(api_key) THEN "invoking" ELSE "raised",
                      session_id |-> sid]
    /\ UNCHANGED <<toolCalls, serviceManager, hashing, demo, console, act4>>
    /\ UNCHANGED <<services, fixtures>>

\* the actor calls a tool: the adapter reads the session id, posts to
\* /action and returns a text
CallTool(input, outcome) ==
    /\ run.pc = "invoking"
    /\ Len(toolCalls) < MaxToolCalls
    /\ toolCalls' = Append(toolCalls,
          [tool_name |-> input.tool_name,
           request |-> [agent_id |-> "agent-support-001",
                        x_agent_id |-> "agent-support-001",
                        session_id |-> getenv(environ, "AGENT_SESSION_ID"),
                        tool_name |-> input.tool_name,
                        tool_args |-> ToolArgs(input.tool_name, input.args),
                        env |-> "prod"],
           outcome |-> outcome,
           returned |-> ToolRun(input.tool_name, input.args, outcome)])
    /\ UNCHANGED <<environ, run, serviceManager, hashing, demo, console, act4>>
    /\ UNCHANGED <<services, fixtures>>

\* agent.invoke returns: the variable is popped and the result returned
InvokeReturns ==
    /\ run.pc = "invoking"
    /\ environ' = popenv(environ, "AGENT_SESSION_ID")
    /\ run' = [run EXCEPT !.pc = "returned"]
    /\ UNCHANGED <<toolCalls, serviceManager, hashing, demo, console, act4>>
    /\ UNCHANGED <<services, fixtures>>

\* agent.invoke raises (the model API fails, the step limit is hit): the
\* exception leaves run_agent at that line
InvokeRaises ==
    /\ run.pc = "invoking"
    /\ run' = [run EXCEPT !.pc = "raised"]
    /\ UNCHANGED <<environ, toolCalls, serviceManager, hashing, demo, console, act4>>
    /\ UNCHANGED <<services, fixtures>>

NextAgent ==
    \/ \E session_id \in RunSessionIds : StartRun(session_id)
    \/ \E input \in ToolInputs, outcome \in ProxyOutcomes : CallTool(input, outcome)
    \/ InvokeReturns
    \/ InvokeRaises

SpecAgent == InitAgentRun /\ [][NextAgent]_vars

(* C23: no tool adapter ever raises: for each of the three adapters every
   outcome of the call to the proxy (structured allow, structured deny,
   non-200 status, transport exception or timeout) is turned into a
   returned text value. *)
C23_AdaptersNeverRaise ==
    \A i \in DOMAIN toolCalls :
        /\ ~toolCalls[i].returned.raised
        /\ toolCalls[i].returned.text.kind \in TextKinds

\* each adapter has been handed an exception of the HTTP client, and a
\* timeout and an unparsable body have occurred
C23_Witness ==
    /\ \E i, j \in DOMAIN toolCalls :
          /\ toolCalls[i].outcome = Raised("ReadTimeout")
          /\ toolCalls[j].outcome.json = "invalid"
          /\ toolCalls[i].returned.text.kind = "error_calling"
          /\ toolCalls[j].returned.text.kind = "error_calling"
          /\ toolCalls[i].tool_name # toolCalls[j].tool_name

AllowedAnswer(call) ==
    /\ call.outcome.kind = "response"
    /\ call.outcome.status_code = 200
    /\ call.outcome.json = "object"
    /\ call.outcome.decision = "allow"

(* C24: for each tool adapter an HTTP 200 response whose decision is allow
   yields the success summary (for list_tickets a count plus the list,
   including when the list is empty), a 200 response with any other
   decision yields the denial message carrying the server's reason, and any
   non-200 status yields an error text. *)
C24_TextByOutcome ==
    \A i \in DOMAIN toolCalls :
        LET call == toolCalls[i]
            text == call.returned.text
        IN  /\ AllowedAnswer(call) =>
                  /\ text.kind \in {"found", "raw_result", "updated", "sent"}
                  /\ (call.tool_name = "list_tickets"
                        /\ call.outcome.result.type = "list") =>
                        text = Text("found", call.outcome.result.len, "")
            /\ (call.outcome.kind = "response" /\ call.outcome.status_code = 200
                    /\ call.outcome.json = "object"
                    /\ call.outcome.decision # "allow") =>
                  text = Text("denied", 0, call.outcome.reason)
            /\ (call.outcome.kind = "response" /\ call.outcome.status_code # 200) =>
                  text = Text("error_status", call.outcome.status_code, "")

(* C25: during an agent run the session id is published in
   AGENT_SESSION_ID, and after run_agent ends it is removed on every exit
   path: when the run returns, when the actor's run raises, and when
   construction fails because the API key is missing. *)
C25_SessionIdScoped ==
    /\ run.pc = "invoking" =>
          getenv(environ, "AGENT_SESSION_ID") = run.session_id
    /\ \A i \in DOMAIN toolCalls : toolCalls[i].request.session_id = run.session_id
    /\ run.pc \in {"returned", "raised"} => "AGENT_SESSION_ID" \notin DOMAIN environ

(***************************************************************************)
(* ServiceManager (src/scripts/service_manager.py)                         *)
(***************************************************************************)
\* the services of the demo's acts, in start order
DemoServices == <<"Ticketing API", "NPC Manager">>

\* the None that takes the place of a handle in ServiceManager.processes
NoProcess == 0

Child(name, state) == [name |-> name, state |-> state, signals |-> {}]
Running == {c \in DOMAIN children : children[c].state = "running"}
\* the children the manager still holds a handle of
Held == {processes[i] : i \in {j \in DOMAIN processes : processes[j] # NoProcess}}

\* `with ServiceManager(services) as sm:' is reached
EnterScope ==
    /\ scope.pc = "outside"
    /\ scope' = [pc |-> "entering", services |-> DemoServices]
    /\ UNCHANGED <<processes, children>>
    /\ UNCHANGED <<services, fixtures, agentProcess, hashing, demo, console, act4>>

\* what starting one service can come to
StartOutcomes == {"popen_raises", "interrupted", "exits_immediately", "unhealthy", "ready"}

\* one round of the loop of __enter__; after the last service the block's
\* body is entered
StartService(outcome) ==
    /\ scope.pc = "entering"
    /\ LET name == scope.services[Len(processes) + 1]
           child == Len(children) + 1
           last == Len(processes) + 1 = Len(scope.services)
       IN  CASE outcome = "popen_raises" ->
                  \* subprocess.Popen raises: the exception leaves __enter__
                  /\ scope' = [scope EXCEPT !.pc = "enter_raised"]
                  /\ UNCHANGED <<processes, children>>
             [] outcome = "interrupted" ->
                  \* the child runs, and the sleep or the health wait is
                  \* interrupted: the exception leaves __enter__
                  /\ scope' = [scope EXCEPT !.pc = "enter_raised"]
                  /\ children' = Append(children, Child(name, "running"))
                  /\ UNCHANGED processes
             [] outcome = "exits_immediately" ->
                  /\ children' = Append(children, Child(name, "exited"))
                  /\ processes' = Append(processes, NoProcess)
                  /\ scope' = [scope EXCEPT !.pc = IF last THEN "body" ELSE @]
             [] outcome = "unhealthy" ->
                  \* wait_for_service times out: the handle is replaced by None
                  /\ children' = Append(children, Child(name, "running"))
                  /\ processes' = Append(processes, NoProcess)
                  /\ scope' = [scope EXCEPT !.pc = IF last THEN "body" ELSE @]
             [] OTHER ->
                  /\ children' = Append(children, Child(name, "running"))
                  /\ processes' = Append(processes, child)
                  /\ scope' = [scope EXCEPT !.pc = IF last THEN "body" ELSE @]
    /\ UNCHANGED <<services, fixtures, agentProcess, hashing, demo, console, act4>>

\* a child exits by itself while the block is open
ChildExits(c) ==
    /\ scope.pc \in {"entering", "body"}
    /\ children' = [children EXCEPT ![c].state = "exited"]
    /\ UNCHANGED <<scope, processes>>
    /\ UNCHANGED <<services, fixtures, agentProcess, hashing, demo, console, act4>>

\* what kill_processes_on_port does to a running child it has no handle of:
\* nothing (the child does not listen on the port, or lsof is missing), or a
\* SIGTERM that the child obeys or not
PortCleanup == {"untouched", "sigterm_obeyed", "sigterm_ignored"}

\* __exit__, when the body of the block returns or raises: the held children
\* are sent SIGTERM, and SIGKILL when they have not exited (those of
\* `graceful' have); then the ports are cleaned
ExitScope(raised, graceful, swept) ==
    /\ scope.pc = "body"
    /\ scope' = [scope EXCEPT !.pc = IF raised THEN "body_raised" ELSE "exited"]
    /\ children' =
          [c \in DOMAIN children |->
              IF children[c].state # "running" THEN children[c]
              ELSE IF c \in Held
              THEN [children[c] EXCEPT
                      !.state = "exited",
                      !.signals = IF c \in graceful THEN {"SIGTERM"}
                                  ELSE {"SIGTERM", "SIGKILL"}]
              ELSE CASE swept[c] = "untouched" -> children[c]
                     [] swept[c] = "sigterm_obeyed" ->
                          [children[c] EXCEPT !.state = "exited",
                                              !.signals = {"SIGTERM"}]
                     [] OTHER -> [children[c] EXCEPT !.signals = {"SIGTERM"}]]
    /\ UNCHANGED processes
    /\ UNCHANGED <<services, fixtures, agentProcess, hashing, demo, console, act4>>

InitManagerScope ==
    /\ InitServices
    /\ InitHashing
    /\ InitAgent
    /\ InitScope
    /\ InitDemo
    /\ InitConsole
    /\ InitAct4

NextScope ==
    \/ EnterScope
    \/ \E outcome \in StartOutcomes : StartService(outcome)
    \/ \E c \in Running : ChildExits(c)
    \/ \E raised \in BOOLEAN, graceful \in SUBSET Running,
          swept \in [Running -> PortCleanup] :
          ExitScope(raised, graceful, swept)

SpecScope == InitManagerScope /\ [][NextScope]_vars

ScopeEnded == scope.pc \in {"exited", "body_raised", "enter_raised"}

(* C26: when the ServiceManager's scope ends, normally or by an exception
   (raised in the body or while starting a later service), every child
   process the manager started, including one that failed its health wait,
   has been sent a termination signal and force-killed if it did not exit,
   so none is left running. *)
C26_NoChildLeftRunning ==
    ScopeEnded =>
        \A c \in DOMAIN children : children[c].state = "exited"

\* ---------------------------------------------------------------------------
\* scripts/demo.py: main, the entry point of the five-act demo
\* ---------------------------------------------------------------------------

\* the acts main runs, in order (demo.py 678-724)
Acts == 1 .. 5

\* acts 3, 4 and 5 are each called inside their own try/except Exception
\* (demo.py 687-724); acts 1 and 2 are called directly (678-685)
Wrapped(act) == act >= 3

\* what the call of one act can do: return a truthy or a falsy value, or let
\* an Exception or a KeyboardInterrupt escape
ActOutcomes == {"pass", "fail", "exception", "interrupt"}

\* sys.exit(code), or the interpreter ending the process after main returned
\* (code 0) or after an exception nobody caught (traceback, code 1; an
\* uncaught KeyboardInterrupt ends the process by SIGINT, reported as 130)
Exit(code, why) == demo' = [demo EXCEPT !.pc = "exited", !.code = code, !.why = why]

\* all(act_results.values()) (demo.py 730)
all(results) == \A i \in DOMAIN results : results[i]

\* python scripts/demo.py [--reset]: parse the arguments and, with --reset,
\* run reset_demo.main (demo.py 625-636); then the port cleanup (638-642)
StartDemo(reset, outcome) ==
    /\ demo.pc = "not_started"
    /\ IF reset /\ outcome = "returns_false"
         THEN Exit(1, "reset_failed")
         ELSE IF reset /\ outcome = "raises"
                THEN Exit(1, "uncaught")
                ELSE demo' = [demo EXCEPT !.pc = "prerequisites", !.reset = reset]
    /\ UNCHANGED <<services, fixtures, agentProcess, serviceManager, hashing, console, act4>>

\* check_prerequisites and the branch on all_met (demo.py 656-666)
CheckPrerequisites(all_met) ==
    /\ demo.pc = "prerequisites"
    /\ IF all_met
         THEN demo' = [demo EXCEPT !.pc = "prompt"]
         ELSE Exit(1, "prerequisites")
    /\ UNCHANGED <<services, fixtures, agentProcess, serviceManager, hashing, console, act4>>

\* input("Press Enter to start the demo..."), outside every try (demo.py 668)
PressEnter(key) ==
    /\ demo.pc = "prompt"
    /\ CASE key = "enter" -> demo' = [demo EXCEPT !.pc = "acts"]
         [] key = "eof" -> Exit(1, "uncaught")
         [] key = "interrupt" -> Exit(130, "uncaught")
    /\ UNCHANGED <<services, fixtures, agentProcess, serviceManager, hashing, console, act4>>

\* the call of the next act and the storing of its result (demo.py 678-724);
\* what escapes from it reaches the handlers of main (756-763)
RunAct(outcome) ==
    LET act == Len(demo.results) + 1
    IN  /\ demo.pc = "acts"
        /\ act \in Acts
        /\ CASE outcome = "pass" -> demo' = [demo EXCEPT !.results = Append(@, TRUE)]
             [] outcome = "fail" -> demo' = [demo EXCEPT !.results = Append(@, FALSE)]
             [] outcome = "exception" ->
                    IF Wrapped(act)
                      THEN demo' = [demo EXCEPT !.results = Append(@, FALSE)]
                      ELSE Exit(1, "uncaught")
             [] outcome = "interrupt" -> Exit(1, "interrupted")
        /\ UNCHANGED <<services, fixtures, agentProcess, serviceManager, hashing, console, act4>>

\* Summary without the sys.exit(1) of its else branch
SummaryReturns ==
    /\ demo.pc = "acts"
    /\ Len(demo.results) = 5
    /\ IF all(demo.results)
         THEN Exit(0, "complete")
         ELSE Exit(0, "acts_failed")
    /\ UNCHANGED <<services, fixtures, agentProcess, serviceManager, hashing, console, act4>>

\* the summary and the exit status (demo.py 726-754, 766-767)
Summary ==
    /\ demo.pc = "acts"
    /\ Len(demo.results) = 5
    /\ IF all(demo.results)
         THEN Exit(0, "complete")
         ELSE Exit(1, "acts_failed")
    /\ UNCHANGED <<services, fixtures, agentProcess, serviceManager, hashing, console, act4>>

InitDemoRun ==
    /\ InitServices
    /\ InitHashing
    /\ InitAgent
    /\ InitScope
    /\ InitDemo
    /\ InitConsole
    /\ InitAct4

NextDemo ==
    \/ \E reset \in BOOLEAN, outcome \in {"returns_true", "returns_false", "raises"} :
          StartDemo(reset, outcome)
    \/ \E all_met \in BOOLEAN : CheckPrerequisites(all_met)
    \/ \E key \in {"enter", "eof", "interrupt"} : PressEnter(key)
    \/ \E outcome \in ActOutcomes : RunAct(outcome)
    \/ Summary

SpecDemo == InitDemoRun /\ [][NextDemo]_vars

DemoExited == demo.pc = "exited"

\* C27: the demo exits with status 0 only after all five acts ran and each
\* of them reported pass; it exits with a non-zero status when an act
\* reported failure or raised, when the prerequisite check found something
\* missing (and then no act has run), when --reset failed, and when an error
\* or an interrupt ended the run.
C27_ExitStatus ==
    DemoExited =>
        /\ demo.code = 0 <=>
              /\ demo.why = "complete"
              /\ Len(demo.results) = 5
              /\ all(demo.results)
        /\ (\E i \in DOMAIN demo.results : ~demo.results[i]) => demo.code # 0
        /\ demo.why = "prerequisites" => demo.code # 0 /\ demo.results = << >>
        /\ demo.why \in {"reset_failed", "uncaught", "interrupted", "acts_failed"} =>
              demo.code # 0

\* the demo ended with status 1 because act 3 failed, the four others passed
C27_Witness ==
    /\ DemoExited
    /\ demo.code = 1
    /\ demo.why = "acts_failed"
    /\ demo.results = <<TRUE, TRUE, FALSE, TRUE, TRUE>>
    /\ demo.reset

(***************************************************************************)
(* The approval gate (src/npc_manager/approval.py) seen from the terminal  *)
(***************************************************************************)

\* SpecApproval: agent-ops closes a ticket (approval solicited), lists tickets
\* (no approval) and mails a customer who must not be contacted; the
\* operator types any of the console lines
ApprovalRequests ==
    {Request("agent-ops", None, None, "update_ticket", CloseTicket(7), "prod"),
     Request("agent-ops", None, None, "list_tickets", NoArgs, "prod"),
     Request("agent-ops", None, None, "send_customer_email", Email(2), "prod")}

NextApproval ==
    \/ \E req \in ApprovalRequests : Len(calls) < MaxCalls /\ ReceiveAction(req)
    \/ Guardrails
    \/ \E c \in 1..Len(calls), line \in ConsoleLines : TypeLine(c, line)
    \/ \E c \in 1..Len(calls), net \in {"answered", "unreachable"} : Dispatch(c, net)

SpecApproval == Init /\ [][NextApproval]_vars

YesNo == {"y", "yes", "n", "no"}

\* every Approval row belongs to a persisted request whose approval was
\* solicited, is the only one of its request, and carries the fixed values
ApprovalRowsWellFormed ==
    \A i \in DOMAIN approvals :
        LET a == approvals[i]
        IN  /\ Persisted(a.request_id)
            /\ actionRequests[a.request_id].approval_required
            /\ a.status \in {"approved", "rejected"}
            /\ a.channel = "cli"
            /\ a.approver = "cli_user"
            /\ \A j \in DOMAIN approvals : approvals[j].request_id = a.request_id => j = i

\* a typed line that is no yes/no answer changes neither store nor handler
InvalidLineIgnored ==
    (console' # console /\ StripLower(console'.line) \notin YesNo) =>
        UNCHANGED <<approvals, actionRequests, calls>>

\* an Approval row is appended by a yes/no answer of the prompted call, with
\* the status the answer names, the ActionRequest still as it was
RowWrittenByAnswer ==
    approvals' # approvals =>
        /\ StripLower(console'.line) \in YesNo
        /\ calls[console'.call].pc = "approval"
        /\ approvals' = Append(approvals,
                [request_id |-> calls[console'.call].request_id,
                 status |-> IF StripLower(console'.line) \in {"y", "yes"}
                            THEN "approved" ELSE "rejected",
                 approver |-> "cli_user", channel |-> "cli"])
        /\ UNCHANGED actionRequests

\* request_approval's last commit: the decision follows the row's status
DecisionFollowsStatus ==
    \A c \in DOMAIN calls :
        (calls[c].pc = "approval_decision" /\ calls'[c].pc # "approval_decision") =>
            \E a \in RowsOf(approvals, calls[c].request_id) :
                /\ actionRequests'[calls[c].request_id].decision \in {"allow", "deny"}
                /\ actionRequests'[calls[c].request_id].decision = "allow"
                        <=> approvals[a].status = "approved"

(* C31: an Approval row exists only for a persisted request with
   approval_required true, at most one per request, with status approved or
   rejected, channel cli and approver cli_user; a typed line other than
   y/yes/n/no (after strip and lower) writes no Approval row and leaves the
   ActionRequest and the waiting handler as they were; a row is written by a
   yes/no answer only; and when request_approval then writes the decision, it
   is allow exactly when the row's status is approved. *)
C31_ApprovalRows ==
    /\ []ApprovalRowsWellFormed
    /\ [][InvalidLineIgnored /\ RowWrittenByAnswer /\ DecisionFollowsStatus]_vars

\* one request was approved and stored as allow; the operator answered the
\* prompt of another with "maybe", and that request is pending with no row
C31_Witness ==
    /\ \E a \in DOMAIN approvals :
          /\ approvals[a].status = "approved"
          /\ actionRequests[approvals[a].request_id].decision = "allow"
    /\ \E c \in DOMAIN calls :
          /\ calls[c].pc = "approval"
          /\ console = [call |-> c, line |-> "maybe"]
          /\ actionRequests[calls[c].request_id].decision = "pending"
          /\ RowsOf(approvals, calls[c].request_id) = {}

(***************************************************************************)
(* The GuardrailEvent rows of a request (src/npc_manager/main.py 200-241)  *)
(***************************************************************************)

\* SpecGuardrails: agent-ops issues, one after another, ticket updates,
\* listings and mails to a customer who may and to one who must not be
\* contacted; the operator approves and the ticketing API answers
GuardrailRequests ==
    {BurstRequest,
     Request("agent-ops", None, None, "list_tickets", NoArgs, "prod"),
     Request("agent-ops", None, None, "send_customer_email", Email(1), "prod"),
     Request("agent-ops", None, None, "send_customer_email", Email(2), "prod")}

NextGuardrails ==
    \/ \E req \in GuardrailRequests :
          /\ Len(calls) < BurstCalls
          /\ InFlight = {}
          /\ ReceiveAction(req)
    \/ Guardrails
    \/ \E c \in 1..Len(calls) : AnswerPrompt(c, "y")
    \/ \E c \in 1..Len(calls) : Dispatch(c, "answered")

SpecGuardrails == Init /\ [][NextGuardrails]_vars

\* the request was admitted and passed check_permissions
PassedPermission(c) ==
    /\ Admitted(c)
    /\ check_permissions(ProfileOf(calls[c].agent_id), calls[c].req.tool_name,
                         calls[c].req.tool_args).allowed

\* the handler has left the guardrail section (main.py 200-241)
PastGuardrails(c) == calls[c].pc \notin {"write_limit", "do_not_contact"}

EventsOf(c, guardrail_name) ==
    {e \in RowsOf(guardrailEvents, calls[c].request_id) :
        guardrailEvents[e].guardrail = guardrail_name}

WriteLimitName == "max_ticket_updates_per_run"
DoNotContactName == "block_external_email_if_customer_do_not_contact"

\* the write-limit guardrail denied the request
DeniedByWriteLimit(c) ==
    \E e \in EventsOf(c, WriteLimitName) : guardrailEvents[e].triggered

\* the rows of the write-limit guardrail: one for a write, none otherwise
WriteLimitRecorded(c) ==
    Cardinality(EventsOf(c, WriteLimitName)) =
        IF calls[c].action_type = "write" THEN 1 ELSE 0

(* C32, as stated: every request that passed the permission check and left
   the guardrail section has one write-limit row exactly when its action
   type is write, and one do-not-contact row whatever its tool. *)
C32_RowPerGuardrailEvaluated ==
    \A c \in DOMAIN calls :
        (PassedPermission(c) /\ PastGuardrails(c)) =>
            /\ WriteLimitRecorded(c)
            /\ Cardinality(EventsOf(c, DoNotContactName)) = 1

(* C32, amended: such a request has one write-limit row exactly when its
   action type is write, triggered exactly when that guardrail denied it;
   it has one do-not-contact row exactly when its tool is
   send_customer_email and the write limit did not deny it, triggered
   exactly when the customer's flag is set; a request for another tool has
   no do-not-contact row although check_guardrail_do_not_contact ran. *)
C32_RowPerGuardrailRecorded ==
    \A c \in DOMAIN calls :
        (PassedPermission(c) /\ PastGuardrails(c)) =>
            LET call == calls[c]
                mails == call.req.tool_name = "send_customer_email"
                flagged == /\ TruthyArg(call.req.tool_args, "customer_id")
                           /\ call.req.tool_args["customer_id"] \in DOMAIN customers
                           /\ customers[call.req.tool_args["customer_id"]]
            IN  /\ WriteLimitRecorded(c)
                /\ \A e \in EventsOf(c, WriteLimitName) :
                      /\ guardrailEvents[e].triggered <=>
                            call.reason.kind = WriteLimitExceeded(0).kind
                      /\ Done(c) =>
                            (guardrailEvents[e].triggered <=>
                                call.response.reason.kind = WriteLimitExceeded(0).kind)
                /\ Cardinality(EventsOf(c, DoNotContactName)) =
                      IF mails /\ ~DeniedByWriteLimit(c) THEN 1 ELSE 0
                /\ \A e \in EventsOf(c, DoNotContactName) :
                      guardrailEvents[e].triggered <=> flagged

\* five updates were allowed and a sixth denied by the write limit, one mail
\* passed and one was blocked, and a listing was executed
C32_Witness ==
    /\ InFlight = {}
    /\ \E c \in DOMAIN calls : PassedPermission(c) /\ DeniedByWriteLimit(c)
    /\ \E c \in DOMAIN calls :
          /\ calls[c].req.tool_name = "update_ticket"
          /\ PassedPermission(c)
          /\ \E e \in EventsOf(c, WriteLimitName) : ~guardrailEvents[e].triggered
          /\ EventsOf(c, DoNotContactName) = {}

(***************************************************************************)
(* scripts/demo.py, act 3: the loop of seven update_ticket calls           *)
(***************************************************************************)

\* for i in range(7)
Act3Updates == 7

\* the agent of the script, and for comparison an agent whose profile has no
\* field restriction
Act3Agents == {"agent-support-001", "agent-ops"}

\* the body and the X-Agent-ID header the loop posts (demo.py 372-382)
Act3Request(agent_id) ==
    Request(agent_id, agent_id, None, "update_ticket", CloseTicket(1), "prod")

\* the reason names the guardrail (demo.py 387)
CitesWriteLimit(c) ==
    /\ Done(c)
    /\ calls[c].response.decision = "deny"
    /\ calls[c].response.reason.kind = WriteLimitExceeded(0).kind

\* the loop goes on until a denial cites the guardrail (demo.py 387-390)
NextAct3 ==
    \/ \E agent_id \in Act3Agents :
          /\ Len(calls) < Act3Updates
          /\ InFlight = {}
          /\ \A c \in DOMAIN calls : calls[c].req.agent_id = agent_id /\ ~CitesWriteLimit(c)
          /\ ReceiveAction(Act3Request(agent_id))
    \/ Guardrails
    \/ \E c \in 1..Len(calls) : AnswerPrompt(c, "y")
    \/ \E c \in 1..Len(calls) : Dispatch(c, "answered")
    \/ InFlight = {} /\ now < NoSessionWindow /\ Tick

SpecAct3 == Init /\ [][NextAct3]_vars

\* the loop of the seeded agent has ended
Act3LoopEnded ==
    /\ calls # << >>
    /\ calls[1].req.agent_id = "agent-support-001"
    /\ InFlight = {}
    /\ Len(calls) = Act3Updates \/ \E c \in DOMAIN calls : CitesWriteLimit(c)

(* C33: when the seven update_ticket calls {ticket_id: 1, status: closed} of
   agent-support-001 have been made against the seeded stores, the operator
   approving every prompt, one of them was denied with a reason citing the
   write-limit guardrail. *)
C33_WriteLimitBySeventhCall ==
    (Act3LoopEnded /\ now = 0) => \E c \in DOMAIN calls : CitesWriteLimit(c)

(***************************************************************************)
(* scripts/demo.py, act 4: the kill switch is enabled, probed and disabled *)
(***************************************************************************)

\* what act 4 leaves alone besides the stores
act4Rest == <<now, calls, actionRequests, approvals, executions, guardrailEvents,
              downstream, tickets, fixtures, agentProcess, serviceManager, hashing,
              demo, console>>

\* the probing request (demo.py 482-492)
Act4Probe ==
    Request("agent-support-001", "agent-support-001", None, "list_tickets", NoArgs, "prod")

ProbeCalls == {c \in DOMAIN calls : calls[c].req = Act4Probe}

\* return value, or the outer `except Exception' (demo.py 515-519)
Act4Return(value) == act4' = [act4 EXCEPT !.pc = "ended", !.returned = value]

\* lines 453-456: the services are started and checked
Act4Start(ready) ==
    /\ act4.pc = "not_started"
    /\ IF ready
         THEN act4' = [act4 EXCEPT !.pc = "enable"]
         ELSE Act4Return(FALSE)
    /\ UNCHANGED <<killSwitch, act4Rest>>

\* lines 458-477: global_kill_switch is set and committed
Act4Enable(db) ==
    /\ act4.pc = "enable"
    /\ IF db = "commits" /\ controlIds # {}
         THEN /\ killSwitch' = TRUE
              /\ act4' = [act4 EXCEPT !.pc = "posted", !.enabled = TRUE]
         ELSE /\ Act4Return(FALSE)
              /\ UNCHANGED killSwitch
    /\ UNCHANGED act4Rest

\* lines 479-499: what client.post and response.json give the script
Act4Response(outcome) ==
    /\ act4.pc = "posted"
    /\ CASE outcome = "connect_error" ->
              /\ ProbeCalls = {}
              /\ Act4Return(FALSE)
         [] outcome \in {"timeout", "unparsable"} ->
              Act4Return(FALSE)
         [] outcome = "answered" ->
              \E c \in ProbeCalls :
                  /\ Done(c)
                  /\ act4' = [act4 EXCEPT
                        !.pc = "disable",
                        !.worked = /\ calls[c].response.decision = "deny"
                                   /\ calls[c].response.reason = KillSwitchReason]
    /\ UNCHANGED <<killSwitch, act4Rest>>

\* lines 501-511: global_kill_switch is cleared and committed
Act4Disable(db) ==
    /\ act4.pc = "disable"
    /\ IF db = "commits"
         THEN /\ killSwitch' = IF controlIds # {} THEN FALSE ELSE killSwitch
              /\ act4' = [act4 EXCEPT !.pc = "prompt"]
         ELSE /\ Act4Return(FALSE)
              /\ UNCHANGED killSwitch
    /\ UNCHANGED act4Rest

\* lines 513-514: input("Press Enter to continue...") and the return
Act4PressEnter(key) ==
    /\ act4.pc = "prompt"
    /\ IF key = "enter" THEN Act4Return(act4.worked) ELSE Act4Return(FALSE)
    /\ UNCHANGED <<killSwitch, act4Rest>>

\* the other clients of the proxy while act 4 runs
Act4Traffic ==
    {Request("agent-ops", None, None, "update_ticket", CloseTicket(7), "prod"),
     Request("agent-ops", None, None, "send_customer_email", Email(2), "prod")}

NextAct4 ==
    \/ \E ready \in BOOLEAN : Act4Start(ready)
    \/ \E db \in {"commits", "raises"} : Act4Enable(db)
    \/ act4.pc = "posted" /\ ProbeCalls = {} /\ ReceiveAction(Act4Probe)
    \/ \E outcome \in {"answered", "connect_error", "timeout", "unparsable"} :
          Act4Response(outcome)
    \/ \E db \in {"commits", "raises"} : Act4Disable(db)
    \/ \E key \in {"enter", "eof"} : Act4PressEnter(key)
    \/ \E req \in Act4Traffic :
          /\ Len(calls) < MaxCalls + Cardinality(ProbeCalls)
          /\ ReceiveAction(req)
    \/ Guardrails
    \/ \E c \in 1..Len(calls) : AnswerPrompt(c, "y")
    \/ \E c \in 1..Len(calls) : Dispatch(c, "answered")

SpecAct4 == Init /\ [][NextAct4]_vars

(* C34: when act 4 has ended after it enabled the kill switch, the switch is
   off, whatever the probing call returned or raised. *)
C34_KillSwitchOffAfterAct4 ==
    (act4.pc = "ended" /\ act4.enabled) => ~killSwitch

(***************************************************************************)
(* The X-Agent-ID header (src/npc_manager/main.py 133-137)                 *)
(***************************************************************************)

\* SpecHeader: one update_ticket call whose body names one agent and whose
\* header is absent, empty, or names another, against a store that holds
\* earlier allowed writes of agent-ops and, possibly, two of agent-batch
HeaderBodies == {"agent-ops", "agent-batch", "agent-reader", "agent-ghost"}
HeaderValues == {None, "", "agent-ops", "agent-batch", "agent-reader", "agent-paused"}

HeaderRequests ==
    {Request(body, header, None, "update_ticket", CloseTicket(7), "prod") :
        body \in HeaderBodies, header \in HeaderValues}

InitHeader ==
    /\ InitOutside
    /\ customers = Customers
    /\ agents = Agents
    /\ permissionProfiles = PermissionProfiles
    /\ controlIds = {1}
    /\ setup = [pc |-> "idle", runs |-> 0]
    /\ \E a \in 0..HistoryRows, others \in SUBSET {"other_agent"} :
          InitHistory(History(0, a, others), 1)

NextHeader ==
    \/ \E req \in HeaderRequests : calls = << >> /\ ReceiveAction(req)
    \/ Guardrails
    \/ \E c \in 1..Len(calls) : AnswerPrompt(c, "y")
    \/ \E c \in 1..Len(calls) : Dispatch(c, "answered")

SpecHeader == InitHeader /\ [][NextHeader]_vars

\* the header's value when a non-empty header was sent, else the body's
HeaderFirst(req) == IF req.x_agent_id \notin {None, ""} THEN req.x_agent_id ELSE req.agent_id

\* the allowed writes of agent_id stored before call c arrived
EarlierAllowedWrites(c, agent_id) ==
    {r \in DOMAIN actionRequests \ {calls[c].request_id} :
        /\ actionRequests[r].agent_id = agent_id
        /\ actionRequests[r].action_type = "write"
        /\ actionRequests[r].decision = "allow"}

(* C35: a request is handled for the agent its X-Agent-ID header names, and
   for the agent of its body only when no header (or an empty one, which the
   handler cannot tell from none) was sent: that agent decides between 404,
   403 and admission, its profile decides the permission check, its allowed
   writes are the ones the write limit counts, and its id is stored in the
   ActionRequest row. *)
C35_HeaderOverridesBody ==
    \A c \in DOMAIN calls :
        LET call == calls[c]
            agent_id == HeaderFirst(call.req)
            known == agent_id \in DOMAIN agents
            active == known /\ agents[agent_id].status = "active"
            permitted == active /\ check_permissions(ProfileOf(agent_id),
                            call.req.tool_name, call.req.tool_args).allowed
        IN  /\ ~known <=> (Done(c) /\ call.response.http = 404)
            /\ (known /\ ~active) <=> (Done(c) /\ call.response.http = 403)
            /\ (active /\ ~permitted) <=>
                  /\ Done(c)
                  /\ call.response.reason.kind \in
                        {ToolNotAllowed("").kind, FieldsNotAllowed({}).kind}
            /\ \A e \in EvaluatedBy(c) :
                  /\ permitted
                  /\ guardrailEvents[e].triggered <=>
                        Cardinality(EarlierAllowedWrites(c, agent_id)) >= max_updates
            /\ (call.request_id # NoRequestId /\ Persisted(call.request_id)) =>
                  actionRequests[call.request_id].agent_id = agent_id

\* header and body name different agents; the header's agent is at the write
\* limit and the request is denied for it, the body's agent is not
C35_Witness ==
    \E c \in DOMAIN calls :
        /\ calls[c].req.x_agent_id = "agent-ops"
        /\ calls[c].req.agent_id = "agent-batch"
        /\ Done(c)
        /\ calls[c].response.reason.kind = WriteLimitExceeded(0).kind
        /\ Cardinality(EarlierAllowedWrites(c, "agent-batch")) = 2
        /\ actionRequests[calls[c].request_id].agent_id = "agent-ops"

(***************************************************************************)
(* The write limit under concurrent /action requests                       *)
(***************************************************************************)

\* SpecRace: update_ticket calls of agent-ops against the seeded stores; the
\* first ones arrive one after another, the last MaxCalls of them may be
\* handled together by the proxy's worker threads; the operator answers each
\* prompt with yes or no
NextRace ==
    \/ /\ Len(calls) < BurstCalls
       /\ Cardinality(InFlight) < (IF Len(calls) + MaxCalls < BurstCalls THEN 1 ELSE MaxCalls)
       /\ ReceiveAction(BurstRequest)
    \/ Guardrails
    \/ \E c \in 1..Len(calls), line \in {"y", "n"} : AnswerPrompt(c, line)
    \/ \E c \in 1..Len(calls) : Dispatch(c, "answered")

SpecRace == Init /\ [][NextRace]_vars

\* the rows the write limit would count for agent_id now, without a session id
AllowedWritesNow(agent_id) ==
    CountedRows(actionRequests, agent_id, now - NoSessionWindow)

(* C36: at no time does the Manager store hold more than five write
   ActionRequests of one agent with decision allow inside the trailing
   window of the write limit. *)
C36_AllowedWritesWithinLimit ==
    \A agent_id \in DOMAIN agents :
        Cardinality(AllowedWritesNow(agent_id)) <= max_updates

(* C37: in every state of the Manager store, an ActionRequest with decision
   allow has an Execution row with a downstream status below 400 and, when
   its approval_required flag is set, an Approval row with status approved. *)
C37_AllowedRowsAreExecuted ==
    \A r \in DOMAIN actionRequests :
        actionRequests[r].decision = "allow" =>
            /\ \E e \in RowsOf(executions, r) : executions[e].downstream_status < 400
            /\ actionRequests[r].approval_required =>
                  \E a \in RowsOf(approvals, r) : approvals[a].status = "approved"

\* the agent's profile restricts update_ticket to the field status
StatusOnly(agent_id) ==
    /\ agent_id \in DOMAIN agents
    /\ ProfileOf(agent_id).field_restrictions = {"status"}

(* C38: an update_ticket request of an agent whose profile restricts
   update_ticket to [status] never reaches the ticketing API as a PATCH and
   never ends with decision allow: with a ticket_id key it is denied by the
   permission check (fields not allowed, nothing sent), and without one the
   endpoint mapping fails, nothing is sent and the stored decision ends as
   deny. *)
C38_StatusOnlyNeverPatches ==
    \A c \in DOMAIN calls :
        LET call == calls[c]
        IN  (call.req.tool_name = "update_ticket" /\ StatusOnly(call.agent_id)) =>
                /\ RowsOf(downstream, call.request_id) = {}
                /\ (Done(c) /\ Persisted(call.request_id)) =>
                      /\ actionRequests[call.request_id].decision = "deny"
                      /\ call.response.decision # "allow"
                /\ (Admitted(c) /\ Has(call.req.tool_args, "ticket_id")) =>
                      /\ Done(c)
                      /\ call.response.decision = "deny"
                      /\ call.response.reason.kind = FieldsNotAllowed({}).kind
                      /\ "ticket_id" \in call.response.reason.fields
                /\ (~Has(call.req.tool_args, "ticket_id") /\ call.pc = "record") =>
                      call.error = "HTTPException 400"

\* a request of the seeded agent without ticket_id was approved, failed at
\* the endpoint mapping, left an Execution row and ended as deny
C38_Witness ==
    \E c \in DOMAIN calls :
        /\ calls[c].agent_id = "agent-support-001"
        /\ calls[c].req.tool_name = "update_ticket"
        /\ calls[c].req.tool_args = ("status" :> "closed")
        /\ Done(c)
        /\ calls[c].approved
        /\ calls[c].error = "HTTPException 400"
        /\ actionRequests[calls[c].request_id].decision = "deny"
        /\ RowsOf(executions, calls[c].request_id) # {}

(* C39: every write or external action of an agent whose permission profile
   carries the environment tag prod that reached the ticketing API has an
   Approval row with status approved, whatever env its body carried. *)
C39_ProdProfileNeedsApproval ==
    \A d \in DOMAIN downstream :
        LET r == downstream[d].request_id
        IN  (/\ Persisted(r)
             /\ actionRequests[r].action_type \in {"write", "external"}
             /\ ProfileOf(actionRequests[r].agent_id).env = "prod") =>
                \E a \in RowsOf(approvals, r) : approvals[a].status = "approved"

(***************************************************************************)
(* Termination of POST /action                                              *)
(***************************************************************************)

\* SpecLive: agent-ops closes a ticket (approval solicited), lists tickets and
\* mails a customer who must not be contacted; a request is taken when the
\* one before it is over or waits at the prompt, the operator types any line, the network
\* does anything, and a day passes while a request waits
LiveRequests ==
    {Request("agent-ops", None, None, "update_ticket", CloseTicket(7), "prod"),
     Request("agent-ops", None, None, "list_tickets", NoArgs, "prod"),
     Request("agent-ops", None, None, "send_customer_email", Email(2), "prod")}

\* the operator answers a prompt with a yes/no line
ValidAnswer == \E c \in 1..Len(calls), line \in {"y", "No"} : AnswerPrompt(c, line)

\* a downstream call returns or fails
DownstreamEnds == \E c \in 1..Len(calls), net \in Network : Dispatch(c, net)

NextLive ==
    \/ /\ Len(calls) < MaxCalls
       /\ \A c \in InFlight : c = Len(calls) /\ calls[c].pc = "approval"
       /\ \E req \in LiveRequests : ReceiveAction(req)
    \/ Guardrails
    \/ \E c \in 1..Len(calls), line \in ConsoleLines : AnswerPrompt(c, line)
    \/ DownstreamEnds
    \/ /\ now = 0
       /\ \E c \in InFlight : calls[c].pc = "approval"
       /\ Tick
       /\ now' = SessionWindow + 1

\* the handler's own steps always go on; the operator eventually answers and
\* the downstream call eventually ends, as the claim assumes
SpecLive ==
    /\ Init
    /\ [][NextLive]_vars
    /\ WF_vars(Guardrails)
    /\ WF_vars(ValidAnswer)
    /\ WF_vars(DownstreamEnds)

Decided(r) == Persisted(r) /\ actionRequests[r].decision \in {"allow", "deny"}

\* a request waiting at the prompt has a pending row
BlockedWhilePending ==
    \A c \in DOMAIN calls :
        calls[c].pc = "approval" =>
            /\ Persisted(calls[c].request_id)
            /\ actionRequests[calls[c].request_id].decision = "pending"

\* nothing but an answer that writes an Approval row ends the wait
OnlyAnAnswerUnblocks ==
    \A c \in DOMAIN calls :
        (calls[c].pc = "approval" /\ calls'[c].pc # "approval") =>
            /\ Len(approvals') = Len(approvals) + 1
            /\ approvals'[Len(approvals')].request_id = calls[c].request_id

(* C40: when the operator eventually answers every prompt with a yes/no
   line and every downstream call eventually returns or fails, every /action
   request received eventually completes and every persisted ActionRequest
   row eventually has decision allow or deny; a request waiting for the
   operator stays where it is, its row pending, until an answer is given:
   neither time nor any other step ends the wait. *)
C40_RequestsTerminate ==
    /\ \A c \in 1..MaxCalls : (c <= Len(calls)) ~> (c <= Len(calls) /\ Done(c))
    /\ \A r \in 1..MaxCalls : Persisted(r) ~> Decided(r)
    /\ []BlockedWhilePending
    /\ [][OnlyAnAnswerUnblocks]_vars

\* a request that waited for the operator while time passed was approved
\* and executed, and another one was rejected; both rows are decided
C40_Witness ==
    /\ InFlight = {}
    /\ now > 0
    /\ \E a \in DOMAIN approvals :
          /\ approvals[a].status = "approved"
          /\ actionRequests[approvals[a].request_id].timestamp = 0
          /\ actionRequests[approvals[a].request_id].decision = "allow"
    /\ \E a \in DOMAIN approvals :
          /\ approvals[a].status = "rejected"
          /\ actionRequests[approvals[a].request_id].decision = "deny"

====
